---- MODULE Spec2Model ----
(***************************************************************************)
(* Account-inventory manager: the Discord bot's command handlers           *)
(* (src/server/db.ts), the storage back ends MemStorage and                *)
(* DatabaseStorage and the HTTP account routes (src/server/routes.ts),     *)
(* over the schema of src/setup-admin.js.                                  *)
(*                                                                         *)
(* Every handler is an async function: it runs atomically from one await   *)
(* to the next, and other handlers run in between.  A request occupies a   *)
(* slot of `reqs`; its pc names the await it is suspended at.  A storage   *)
(* method of DatabaseStorage is a sequence of SQL statements (each one     *)
(* atomic); a method of MemStorage runs to completion without yielding.    *)
(* Time is sampled in seconds at the instants of Instants.                 *)
(***************************************************************************)
EXTENDS Integers, Sequences, FiniteSets, TLC

\* ------------------------------------------------------------------ bounds
\* Number of request slots (chat messages and HTTP requests handled in a run).
MaxReqs == 2

\* ------------------------------------------------------- program constants
\* cooldown: 3600 in the default settings (MessageCreate, DM and new guild).
DefaultCooldown == 3600
\* Date.now() - 1000 * 60 * 60 * 2: how long before now the simulated last
\* generation lies, here in seconds.
SimulatedLastGenerationAgo == 60 * 60 * 2
\* Expiry of the sample account of MemStorage, 30 days, in seconds.
StreamingExpiry == 30 * 24 * 60 * 60
VpnExpiry == 60 * 24 * 60 * 60
GamingExpiry == 45 * 24 * 60 * 60

\* ------------------------------------------------------------ value domains
Null == -1                    \* a null timestamp / an undefined number
NullStr == "null"             \* a null text column
Undefined == "undefined"      \* an absent string / a missing argument

\* The instants at which the clock is observed (seconds since start).
Instants == {0, DefaultCooldown - 1, DefaultCooldown, StreamingExpiry + 1}

Guilds == {"G1"}
NoGuild == "dm"
\* process.env.DISCORD_OWNER_ID
DISCORD_OWNER_ID == "Owner"

\* String.prototype.toLowerCase on the strings the model uses.
toLowerCase(s) ==
  CASE s = "Streaming" -> "streaming"
    [] s = "VPN" -> "vpn"
    [] s = "Gaming" -> "gaming"
    [] s = "A@x.com" -> "a@x.com"
    [] OTHER -> s

\* String.prototype.includes on the strings the model uses: s contains sub.
includes(s, sub) ==
  \/ s = sub
  \/ sub = "@x.com" /\ s \in {"a@x.com", "b@x.com", "A@x.com"}
  \/ sub = ":" /\ s \in {"b@x.com:pw2", ":pw2", "b@x.com:"}

VARIABLES
  backend,      \* "mem" (MemStorage) or "db" (DatabaseStorage)
  now,          \* the clock, in seconds
  accounts,     \* accounts table: id -> Account
  accountId,    \* next account id (this.accountId / the serial column)
  categories,   \* account_categories: id -> AccountCategory
  categoryId,   \* next category id
  botSettings,  \* bot_settings: guildId -> BotSettings
  logs,         \* logs table, in insertion order
  logId,        \* next log id
  users,        \* users table: id -> User
  userId,       \* next user id
  sessions,     \* the session store: session id -> req.session.user
  reqs          \* request slots: the handlers in flight and their outcomes

vars == <<backend, now, accounts, accountId, categories, categoryId,
          botSettings, logs, logId, users, userId, sessions, reqs>>

webVars == <<users, userId, sessions>>

storeVars == <<accounts, accountId, categories, categoryId, botSettings, logs, logId>>

Slots == 1..MaxReqs

\* The session cookies of the browsers.
SessionIds == {"c1", "c2"}

\* ------------------------------------------------------------------ schema
Account(id, email, password, cat, status, expiresAt, generatedBy, generatedAt, t) ==
  [id |-> id, email |-> email, password |-> password, categoryId |-> cat,
   status |-> status, expiresAt |-> expiresAt, generatedBy |-> generatedBy,
   generatedAt |-> generatedAt, createdAt |-> t, updatedAt |-> t]

NoAccount == Account(0, "", "", 0, "", Null, NullStr, Null, Null)

BotSettings(guildId, prefix, allowedRoles, adminRoles, cooldown) ==
  [guildId |-> guildId, prefix |-> prefix, allowedRoles |-> allowedRoles,
   adminRoles |-> adminRoles, cooldown |-> cooldown]

NoSettings == BotSettings("", "", <<>>, <<>>, 0)

\* Settings without a cooldown.
NoCooldownSettings(guildId) == BotSettings(guildId, "!", <<>>, <<>>, 0)

\* The settings MessageCreate creates for a new guild and uses in a DM.
DefaultSettings(guildId) == BotSettings(guildId, "!", <<>>, <<>>, DefaultCooldown)

\* A row of users; the password column holds the plain text (a legacy row) or
\* the salted scrypt hash of it.
User(id, username, password, isAdmin) ==
  [id |-> id, username |-> username, password |-> password, isAdmin |-> isAdmin]

\* No row, and no req.session.user.
NoUser == [id |-> 0, username |-> "", isAdmin |-> FALSE]

Log(id, type, action, t) == [id |-> id, type |-> type, action |-> action, createdAt |-> t]

\* ---------------------------------------------------------------- messages
\* A chat message as the gateway delivers it: the author, whether the author
\* is a bot, the guild ("dm" outside any guild), the author's roles and
\* Administrator permission in that guild, and the text, kept as its leading
\* prefix and its words.
Message(author, bot, guild, roles, administrator, prefix, words) ==
  [author |-> author, bot |-> bot, guild |-> guild, roles |-> roles,
   administrator |-> administrator, prefix |-> prefix, words |-> words]

NoMessage == Message("", FALSE, "", {}, FALSE, "", <<>>)

\* message.content.slice(prefix.length).trim().split(/ +/); args.shift()?.toLowerCase()
command(m) == IF m.words = <<>> THEN Undefined ELSE toLowerCase(Head(m.words))
args(m) == IF m.words = <<>> THEN <<>> ELSE Tail(m.words)
arg(m, i) == IF Len(args(m)) >= i THEN args(m)[i] ELSE Undefined

\* An HTTP request: the route, what req.session.user holds ("none", "user" or
\* "admin"), the :id of the path, the JSON body's fields, and which of the
\* body's fields hold a date (JSON carries a date as an ISO string).
Http(route, session, id, body, isoDates) ==
  [route |-> route, session |-> session, id |-> id, body |-> body, isoDates |-> isoDates]

NoHttp == Http("", "", 0, <<>>, {})

\* ------------------------------------------------------------- permissions
\* isAdmin with the default of hasPermission: no admin roles configured lets
\* everyone through.
isAdminOpenByDefault(m, settings) ==
  IF m.guild = NoGuild
    THEN m.author = DISCORD_OWNER_ID
    ELSE IF settings = NoSettings \/ Len(settings.adminRoles) = 0
      THEN TRUE
      ELSE (\E i \in 1..Len(settings.adminRoles) : settings.adminRoles[i] \in m.roles)
           \/ m.administrator

\* isAdmin(message), given the result of storage.getBotSettings (NoSettings
\* when there is no row).
isAdmin(m, settings) ==
  IF m.guild = NoGuild
    THEN m.author = DISCORD_OWNER_ID
    ELSE IF settings = NoSettings \/ Len(settings.adminRoles) = 0
      THEN m.administrator
      ELSE (\E i \in 1..Len(settings.adminRoles) : settings.adminRoles[i] \in m.roles)
           \/ m.administrator

\* hasPermission without its `|| isAdmin(message)`.
hasPermissionRolesOnly(m, settings) ==
  IF m.guild = NoGuild
    THEN TRUE
    ELSE IF settings = NoSettings \/ Len(settings.allowedRoles) = 0
      THEN TRUE
      ELSE \E i \in 1..Len(settings.allowedRoles) : settings.allowedRoles[i] \in m.roles

\* hasPermission(message), given the result of storage.getBotSettings.
hasPermission(m, settings) ==
  IF m.guild = NoGuild
    THEN TRUE
    ELSE IF settings = NoSettings \/ Len(settings.allowedRoles) = 0
      THEN TRUE
      ELSE (\E i \in 1..Len(settings.allowedRoles) : settings.allowedRoles[i] \in m.roles)
           \/ isAdmin(m, settings)

\* ----------------------------------------------------------------- storage
\* storage.getBotSettings(guildId)
getBotSettings(guildId) ==
  IF guildId \in DOMAIN botSettings THEN botSettings[guildId] ELSE NoSettings

\* storage.getCategoryByName(name): the id of the category whose lower-cased
\* name equals the lower-cased argument; 0 when there is none. Names are
\* unique in the table, and MemStorage returns the first match in id order.
getCategoryByName(name) ==
  LET hit == {c \in DOMAIN categories : toLowerCase(categories[c].name) = toLowerCase(name)}
  IN IF hit = {} THEN 0 ELSE CHOOSE c \in hit : \A d \in hit : c <= d

\* A WHERE clause that leaves the category filter out.
matchesAnyCategory(a, filters) ==
  /\ \/ filters.status = Undefined
     \/ a.status = filters.status
  /\ filters.search = Undefined
       \/ includes(toLowerCase(a.email), toLowerCase(filters.search))

\* The WHERE clause of getAccounts(filters) of storage b. A filter that is
\* undefined or falsy is skipped; DatabaseStorage also skips status 'all'.
matchesOf(b, a, filters) ==
  /\ filters.categoryId = Null \/ a.categoryId = filters.categoryId
  /\ \/ filters.status = Undefined
     \/ b = "db" /\ filters.status = "all"
     \/ a.status = filters.status
  /\ filters.search = Undefined
       \/ includes(toLowerCase(a.email), toLowerCase(filters.search))

\* The WHERE clause of storage.getAccounts(filters).
matches(a, filters) == matchesOf(backend, a, filters)

\* storage.getAccounts(filters), as the set of ids of the rows returned.
getAccounts(filters) == {id \in DOMAIN accounts : matches(accounts[id], filters)}

\* The rows that can stand first in the array storage.getAccounts returns:
\* MemStorage iterates its Map in insertion order, which is id order;
\* DatabaseStorage selects without ORDER BY, so any row can come first.
firstOf(ids) ==
  IF backend = "mem" THEN {id \in ids : \A j \in ids : id <= j} ELSE ids

\* An update that stamps the row as an insert does: createdAt as well as
\* updatedAt.
recreatedAccount(account, updateData, t) ==
  [f \in DOMAIN account |->
     IF f \in {"updatedAt", "createdAt"} THEN t
     ELSE IF f = "id" THEN account.id
     ELSE IF f \in DOMAIN updateData THEN updateData[f]
     ELSE account[f]]

\* { ...account, ...updateData, id, updatedAt: new Date() } of MemStorage and
\* .set({ ...updateData, updatedAt: new Date() }) of DatabaseStorage.
updatedAccount(account, updateData, t) ==
  [f \in DOMAIN account |->
     IF f = "updatedAt" THEN t
     ELSE IF f = "id" THEN account.id
     ELSE IF f \in DOMAIN updateData THEN updateData[f]
     ELSE account[f]]

\* A log that puts the new entries first, as the newest-first listing of
\* getLogs would if it were stored.
createLogsNewestFirst(entries) ==
  [i \in 1..Len(entries) |->
     Log(logId + Len(entries) - i, entries[Len(entries) + 1 - i][1],
         entries[Len(entries) + 1 - i][2], now)] \o logs

\* The logs table after createLog for each <<type, action>> of entries.
createLogs(entries) ==
  logs \o [i \in 1..Len(entries) |-> Log(logId + i - 1, entries[i][1], entries[i][2], now)]

\* ------------------------------------------------------------------- slots
\* A slot holds a handler's locals (settings, category, account), the time the
\* account was read (selectedAt), the time of the handler's claim or cooldown
\* answer (at), the replies sent so far, the account sent by DM (dm) and the
\* remaining cooldown the cooldown command computed; createdAccounts holds the
\* ids of the rows storage.createAccounts has returned.
Request(pc, msg, http) ==
  [pc |-> pc, msg |-> msg, http |-> http, settings |-> NoSettings, category |-> 0,
   account |-> NoAccount, selectedAt |-> Null, replies |-> <<>>, dm |-> NoAccount,
   remaining |-> Null, at |-> Null, createdAccounts |-> <<>>, user |-> NoUser]

Idle == Request("idle", NoMessage, NoHttp)

\* message.reply(...): the handler returns after it.
reply(r, kind) == [r EXCEPT !.replies = Append(@, kind), !.pc = "done"]

\* -------------------------------------------------------------------- Init
\* MemStorage after its constructor (initializeDefaultData). createCategory is
\* async, so streamingCategory is a Promise and streamingCategory.id is
\* undefined: the three sample accounts carry no categoryId.
MemInit ==
  /\ categories = (1 :> [name |-> "Streaming"]) @@ (2 :> [name |-> "VPN"])
                    @@ (3 :> [name |-> "Gaming"])
  /\ categoryId = 4
  /\ accounts =
       (1 :> Account(1, "netflix@example.com", "password123", Null, "available",
                     StreamingExpiry, NullStr, Null, 0))
       @@ (2 :> Account(2, "nordvpn@example.com", "password123", Null, "available",
                        VpnExpiry, NullStr, Null, 0))
       @@ (3 :> Account(3, "steam@example.com", "password123", Null, "available",
                        GamingExpiry, NullStr, Null, 0))
  /\ accountId = 4
  /\ botSettings = <<>>
  /\ logs = <<Log(1, "info", "ACCOUNT_CREATED", 0), Log(2, "info", "ACCOUNT_CREATED", 0),
              Log(3, "info", "ACCOUNT_CREATED", 0), Log(4, "info", "SYSTEM_START", 0)>>
  /\ logId = 5

\* The settings rows a guild's database can hold when the bot starts: none, or
\* a row whose role lists an operator has filled in.
ConfiguredSettings == BotSettings("G1", "!", <<"R1">>, <<"R2">>, DefaultCooldown)

\* DatabaseStorage keeps what earlier runs stored: here the rows an earlier
\* `!add streaming a@x.com:pw1` left (handleAddCommand: the category, the
\* account, and the two log entries).
DbInit ==
  /\ categories = (1 :> [name |-> "streaming"])
  /\ categoryId = 2
  /\ accounts = (1 :> Account(1, "a@x.com", "pw1", 1, "available", Null, NullStr, Null, 0))
  /\ accountId = 2
  /\ botSettings \in {<<>>, "G1" :> ConfiguredSettings}
  /\ logs = <<Log(1, "info", "ACCOUNT_CREATED", 0), Log(2, "success", "ACCOUNT_ADDED", 0)>>
  /\ logId = 3

\* The users table holds the default admin (MemStorage.initializeDefaultData:
\* password admin123 in plain text; setup-admin.js for the database), and
\* nobody is logged in.
UsersInit ==
  /\ users = (1 :> User(1, "admin", [salted |-> FALSE, text |-> "admin123"], TRUE))
  /\ userId = 2
  /\ sessions = [sid \in SessionIds |-> NoUser]

Init ==
  /\ backend \in {"mem", "db"}
  /\ now = 0
  /\ IF backend = "mem" THEN MemInit ELSE DbInit
  /\ UsersInit
  /\ reqs = [s \in Slots |-> Idle]

\* Time passes.
Tick ==
  /\ \E t \in Instants : t > now /\ now' = t
  /\ UNCHANGED <<backend, webVars, storeVars, reqs>>

\* ------------------------------------------------------------ MessageCreate
\* The switch of the MessageCreate handler, entered once the settings are
\* known: a message without the prefix and an unknown command end the handler
\* without a reply; a known command enters its handler, whose first await is
\* the permission check.
dispatch(r, settings) ==
  LET q == [r EXCEPT !.settings = settings]
      c == command(r.msg)
  IN IF r.msg.prefix # settings.prefix THEN [q EXCEPT !.pc = "done"]
     ELSE IF c \in {"generate", "stock", "add", "status", "help", "profile", "cooldown",
                     "info", "remove", "blacklist", "setcooldown"}
       THEN [q EXCEPT !.pc = c]
       ELSE [q EXCEPT !.pc = "done"]

\* A message arrives: bot messages are ignored; in a guild the settings are
\* read (and created by the next step when there are none); in a DM the
\* defaults are used.
MessageCreate(s, m) ==
  /\ reqs[s].pc = "idle"
  /\ \A j \in Slots : j < s => reqs[j].pc # "idle"
  /\ LET r == Request("start", m, NoHttp)
     IN reqs' = [reqs EXCEPT ![s] =
          IF m.bot THEN [r EXCEPT !.pc = "done"]
          ELSE IF m.guild = NoGuild THEN dispatch(r, DefaultSettings(NoGuild))
          ELSE IF getBotSettings(m.guild) = NoSettings
            THEN [r EXCEPT !.pc = "createBotSettings"]
            ELSE dispatch(r, getBotSettings(m.guild))]
  /\ UNCHANGED <<backend, webVars, now, storeVars>>

\* storage.createBotSettings for a guild without settings. In DatabaseStorage
\* guild_id is unique, so the insert fails when the row exists by now, and
\* the failure reaches the catch of the MessageCreate handler, which logs
\* BOT_ERROR and replies nothing. MemStorage sets the map entry in the first
\* continuation of the handler, which runs before the later continuations in
\* which another handler of the guild updates the entry: when the entry
\* exists by now, the set came before those updates and put the defaults
\* over the defaults another handler had created.
createBotSettings(s) ==
  LET r == reqs[s]
      g == r.msg.guild
  IN /\ r.pc = "createBotSettings"
     /\ IF backend = "db" /\ g \in DOMAIN botSettings
          THEN /\ logs' = createLogs(<<<<"error", "BOT_ERROR">>>>)
               /\ logId' = logId + 1
               /\ reqs' = [reqs EXCEPT ![s].pc = "done"]
               /\ UNCHANGED botSettings
          ELSE /\ botSettings' = IF g \in DOMAIN botSettings THEN botSettings
                                 ELSE (g :> DefaultSettings(g)) @@ botSettings
               /\ reqs' = [reqs EXCEPT ![s] = dispatch(r, DefaultSettings(g))]
               /\ UNCHANGED <<logs, logId>>
     /\ UNCHANGED <<backend, webVars, now, accounts, accountId, categories, categoryId>>

\* ------------------------------------------------------ storage.updateAccount
\* MemStorage.updateAccount(id, updateData) in one step: undefined (nothing
\* changes) when the id is not in the map, else the merged record is stored
\* and ACCOUNT_UPDATED is logged. `next` is the slot's record afterwards.
MemUpdateAccount(s, id, updateData, next) ==
  /\ backend = "mem"
  /\ IF id \in DOMAIN accounts
       THEN /\ accounts' = [accounts EXCEPT ![id] = updatedAccount(@, updateData, now)]
            /\ logs' = createLogs(<<<<"info", "ACCOUNT_UPDATED">>>>)
            /\ logId' = logId + 1
       ELSE UNCHANGED <<accounts, logs, logId>>
  /\ reqs' = [reqs EXCEPT ![s] = next]
  /\ UNCHANGED <<backend, webVars, now, accountId, categories, categoryId, botSettings>>

\* DatabaseStorage.updateAccount, first statement: select the row by id.
\* `found` is the slot's record when the row exists, `missing` when it does
\* not (the method then returns undefined).
DbUpdateSelect(s, id, found, missing) ==
  /\ backend = "db"
  /\ reqs' = [reqs EXCEPT ![s] = IF id \in DOMAIN accounts THEN found ELSE missing]
  /\ UNCHANGED <<backend, webVars, now, storeVars>>

\* DatabaseStorage.updateAccount, second statement and the createLog after it:
\* UPDATE ... WHERE id RETURNING. When the row was deleted since the select,
\* nothing is returned and reading updatedAccount.email throws (`thrown`).
DbUpdateWrite(s, id, updateData, next, thrown) ==
  /\ backend = "db"
  /\ IF id \in DOMAIN accounts
       THEN /\ accounts' = [accounts EXCEPT ![id] = updatedAccount(@, updateData, now)]
            /\ logs' = createLogs(<<<<"info", "ACCOUNT_UPDATED">>>>)
            /\ logId' = logId + 1
            /\ reqs' = [reqs EXCEPT ![s] = next]
       ELSE /\ reqs' = [reqs EXCEPT ![s] = thrown]
            /\ UNCHANGED <<accounts, logs, logId>>
  /\ UNCHANGED <<backend, webVars, now, accountId, categories, categoryId, botSettings>>

\* ------------------------------------------------------ handleGenerateCommand
\* await hasPermission(message), then the check of args[0].
generatePermission(s) ==
  LET r == reqs[s]
      serviceName == IF arg(r.msg, 1) = Undefined THEN Undefined
                     ELSE toLowerCase(arg(r.msg, 1))
  IN /\ r.pc = "generate"
     /\ reqs' = [reqs EXCEPT ![s] =
          IF ~hasPermission(r.msg, getBotSettings(r.msg.guild))
            THEN reply(r, "PermissionDenied")
          ELSE IF serviceName = Undefined THEN reply(r, "Usage")
          ELSE [r EXCEPT !.pc = "generate:getCategoryByName"]]
     /\ UNCHANGED <<backend, webVars, now, storeVars>>

\* The storage read of hasPermission fails (the database is unreachable):
\* the call stands before the handler's try, so the rejection reaches the
\* catch of the MessageCreate handler, which starts a BOT_ERROR log entry
\* without awaiting it (it is written or not) and sends no reply.
generatePermissionThrows(s) ==
  LET r == reqs[s]
  IN /\ r.pc = "generate"
     /\ backend = "db"
     /\ r.msg.guild # NoGuild
     /\ \/ logs' = createLogs(<<<<"error", "BOT_ERROR">>>>) /\ logId' = logId + 1
        \/ UNCHANGED <<logs, logId>>
     /\ reqs' = [reqs EXCEPT ![s].pc = "done"]
     /\ UNCHANGED <<backend, webVars, now, accounts, accountId, categories, categoryId, botSettings>>

\* storage.getCategoryByName(serviceName); without a category the list of
\* categories is read and sent as the reply.
generateGetCategory(s) ==
  LET r == reqs[s]
      category == getCategoryByName(toLowerCase(arg(r.msg, 1)))
  IN /\ r.pc = "generate:getCategoryByName"
     /\ reqs' = [reqs EXCEPT ![s] =
          IF category = 0 THEN reply(r, "CategoryNotFound")
          ELSE [r EXCEPT !.category = category, !.pc = "generate:getAccounts"]]
     /\ UNCHANGED <<backend, webVars, now, storeVars>>

\* storage.getCategoryByName fails (the database is unreachable): the call
\* stands inside the try, so the handler's catch runs.
generateGetCategoryThrows(s) ==
  /\ reqs[s].pc = "generate:getCategoryByName"
  /\ backend = "db"
  /\ reqs' = [reqs EXCEPT ![s].pc = "generate:catch"]
  /\ UNCHANGED <<backend, webVars, now, storeVars>>

\* storage.getAccounts({ categoryId: category.id, status: "available" }) and
\* const account = accounts[0].
generateGetAccounts(s) ==
  LET r == reqs[s]
      found == getAccounts([categoryId |-> r.category, status |-> "available",
                            search |-> Undefined])
  IN /\ r.pc = "generate:getAccounts"
     /\ IF found = {}
          THEN reqs' = [reqs EXCEPT ![s].pc = "generate:noStock"]
          ELSE \E id \in firstOf(found) :
                 reqs' = [reqs EXCEPT ![s] =
                   [r EXCEPT !.account = accounts[id], !.selectedAt = now,
                             !.pc = "generate:updateAccount"]]
     /\ UNCHANGED <<backend, webVars, now, storeVars>>

\* No available account: the warning is logged and the reply sent.
generateNoStock(s) ==
  LET r == reqs[s]
  IN /\ r.pc = "generate:noStock"
     /\ logs' = createLogs(<<<<"warning", "ACCOUNT_GENERATION_FAILED">>>>)
     /\ logId' = logId + 1
     /\ reqs' = [reqs EXCEPT ![s] = reply(r, "StockExhausted")]
     /\ UNCHANGED <<backend, webVars, now, accounts, accountId, categories, categoryId, botSettings>>

\* The data of the claim: storage.updateAccount(account.id, { status:
\* "generated", generatedBy: message.author.tag, generatedAt: new Date() }).
claimData(r) ==
  [status |-> "generated", generatedBy |-> r.msg.author, generatedAt |-> now]

\* An update that leaves the status at generated.
keepData == [status |-> "generated"]

\* The data of the release after a failed DM:
\* storage.updateAccount(account.id, { status: "available" }).
releaseData == [status |-> "available"]

\* Mark as generated. The handler does not look at what updateAccount returns.
generateUpdateAccount(s) ==
  LET r == reqs[s]
  IN /\ r.pc = "generate:updateAccount"
     /\ IF backend = "mem"
          THEN MemUpdateAccount(s, r.account.id, claimData(r),
                                [r EXCEPT !.pc = "generate:logSuccess", !.at = now])
          ELSE DbUpdateSelect(s, r.account.id,
                              [r EXCEPT !.pc = "generate:updateAccount:update"],
                              [r EXCEPT !.pc = "generate:logSuccess"])

generateUpdateAccountWrite(s) ==
  LET r == reqs[s]
  IN /\ r.pc = "generate:updateAccount:update"
     /\ DbUpdateWrite(s, r.account.id, claimData(r),
                      [r EXCEPT !.pc = "generate:logSuccess", !.at = now],
                      [r EXCEPT !.pc = "generate:catch"])

\* createLog ACCOUNT_GENERATED.
generateLogSuccess(s) ==
  LET r == reqs[s]
  IN /\ r.pc = "generate:logSuccess"
     /\ logs' = createLogs(<<<<"success", "ACCOUNT_GENERATED">>>>)
     /\ logId' = logId + 1
     /\ reqs' = [reqs EXCEPT ![s].pc = "generate:send"]
     /\ UNCHANGED <<backend, webVars, now, accounts, accountId, categories, categoryId, botSettings>>

\* message.author.send(...): the DM either arrives, and the success is
\* confirmed in the channel, or fails, and the account is released.
generateSend(s) ==
  LET r == reqs[s]
  IN /\ r.pc = "generate:send"
     /\ \E delivered \in BOOLEAN :
          reqs' = [reqs EXCEPT ![s] =
            IF delivered THEN reply([r EXCEPT !.dm = r.account], "Success")
            ELSE [r EXCEPT !.pc = "generate:release"]]
     /\ UNCHANGED <<backend, webVars, now, storeVars>>

\* If DM fails: storage.updateAccount(account.id, { status: "available" }),
\* then the reply.
generateRelease(s) ==
  LET r == reqs[s]
  IN /\ r.pc = "generate:release"
     /\ IF backend = "mem"
          THEN MemUpdateAccount(s, r.account.id, releaseData, reply(r, "DMError"))
          ELSE DbUpdateSelect(s, r.account.id,
                              [r EXCEPT !.pc = "generate:release:update"],
                              reply(r, "DMError"))

generateReleaseWrite(s) ==
  LET r == reqs[s]
  IN /\ r.pc = "generate:release:update"
     /\ DbUpdateWrite(s, r.account.id, releaseData, reply(r, "DMError"),
                      [r EXCEPT !.pc = "generate:catch"])

\* catch (error): ACCOUNT_GENERATION_ERROR is logged and the reply sent.
generateCatch(s) ==
  LET r == reqs[s]
  IN /\ r.pc = "generate:catch"
     /\ logs' = createLogs(<<<<"error", "ACCOUNT_GENERATION_ERROR">>>>)
     /\ logId' = logId + 1
     /\ reqs' = [reqs EXCEPT ![s] = reply(r, "SystemError")]
     /\ UNCHANGED <<backend, webVars, now, accounts, accountId, categories, categoryId, botSettings>>

handleGenerateCommand(s) ==
  \/ generatePermission(s)
  \/ generatePermissionThrows(s)
  \/ generateGetCategory(s)
  \/ generateGetCategoryThrows(s)
  \/ generateGetAccounts(s)
  \/ generateNoStock(s)
  \/ generateUpdateAccount(s)
  \/ generateUpdateAccountWrite(s)
  \/ generateLogSuccess(s)
  \/ generateSend(s)
  \/ generateRelease(s)
  \/ generateReleaseWrite(s)
  \/ generateCatch(s)

\* ------------------------------------------------------ handleCooldownCommand
Max(a, b) == IF a >= b THEN a ELSE b

\* const lastGenerationTime = Date.now() - 1000 * 60 * 60 * 2
lastGenerationTime(t) == t - SimulatedLastGenerationAgo

\* Math.max(0, cooldownPeriod - (Date.now() - lastGenerationTime)) with
\* cooldownPeriod = settings.cooldown * 1000. The code computes in
\* milliseconds; the clock here ticks in whole seconds, so every term is the
\* code's divided by 1000, and so is the result.
remainingTime(cooldown, t) ==
  Max(0, cooldown - (t - lastGenerationTime(t)))

\* await hasPermission(message), then the remaining time from the settings
\* the MessageCreate handler passed in, and the reply.
handleCooldownCommand(s) ==
  LET r == reqs[s]
      remaining == remainingTime(r.settings.cooldown, now)
  IN /\ r.pc = "cooldown"
     /\ reqs' = [reqs EXCEPT ![s] =
          IF ~hasPermission(r.msg, getBotSettings(r.msg.guild))
            THEN reply(r, "PermissionDenied")
          ELSE IF remaining <= 0
            THEN reply([r EXCEPT !.remaining = remaining, !.at = now], "CooldownOver")
            ELSE reply([r EXCEPT !.remaining = remaining, !.at = now], "CooldownActive")]
     /\ UNCHANGED <<backend, webVars, now, storeVars>>

\* ------------------------------------------- the commands that only read
\* handleHelpCommand: await isAdmin(message) chooses between the user list
\* and the list with the admin commands; hasPermission is not called.
handleHelpCommand(s) ==
  LET r == reqs[s]
  IN /\ r.pc = "help"
     /\ reqs' = [reqs EXCEPT ![s] =
          IF isAdmin(r.msg, getBotSettings(r.msg.guild))
            THEN reply(r, "HelpAdmin") ELSE reply(r, "Help")]
     /\ UNCHANGED <<backend, webVars, now, storeVars>>

\* handleStockCommand: await hasPermission(message), then the categories are
\* read and the stock of the named one (of all without a name) is sent.
handleStockCommand(s) ==
  LET r == reqs[s]
  IN /\ r.pc = "stock"
     /\ reqs' = [reqs EXCEPT ![s] =
          IF ~hasPermission(r.msg, getBotSettings(r.msg.guild))
            THEN reply(r, "PermissionDenied")
          ELSE IF arg(r.msg, 1) # Undefined /\ getCategoryByName(arg(r.msg, 1)) = 0
            THEN reply(r, "CategoryNotFound")
            ELSE reply(r, "Stock")]
     /\ UNCHANGED <<backend, webVars, now, storeVars>>

\* handleStatusCommand and handleProfileCommand: await hasPermission(message),
\* then the statistics are read and sent.
handleStatusCommand(s) ==
  LET r == reqs[s]
  IN /\ r.pc \in {"status", "profile"}
     /\ reqs' = [reqs EXCEPT ![s] =
          IF ~hasPermission(r.msg, getBotSettings(r.msg.guild))
            THEN reply(r, "PermissionDenied")
          ELSE IF r.pc = "status" THEN reply(r, "Status") ELSE reply(r, "Profile")]
     /\ UNCHANGED <<backend, webVars, now, storeVars>>

\* handleInfoCommand: await hasPermission(message), the check of args[0],
\* then the category is read and its description sent.
handleInfoCommand(s) ==
  LET r == reqs[s]
  IN /\ r.pc = "info"
     /\ reqs' = [reqs EXCEPT ![s] =
          IF ~hasPermission(r.msg, getBotSettings(r.msg.guild))
            THEN reply(r, "PermissionDenied")
          ELSE IF arg(r.msg, 1) = Undefined THEN reply(r, "Usage")
          ELSE IF getCategoryByName(arg(r.msg, 1)) = 0 THEN reply(r, "CategoryNotFound")
          ELSE reply(r, "Info")]
     /\ UNCHANGED <<backend, webVars, now, storeVars>>

\* --------------------------------------------------- handleSetCooldownCommand
\* isNaN(parseInt(s)) and parseInt(s) on the argument strings the model uses.
parseIntIsNaN(s) == s \in {Undefined, "abc", ""}
parseInt(s) ==
  CASE s = "0" -> 0
    [] s = "60" -> 60
    [] s = "121" -> 121
    [] s = "-5" -> 0 - 5
    [] s = "30m" -> 30
    [] OTHER -> 0

\* await isAdmin(message), then the checks of the argument.
setCooldownPermission(s) ==
  LET r == reqs[s]
  IN /\ r.pc = "setcooldown"
     /\ reqs' = [reqs EXCEPT ![s] =
          IF ~isAdmin(r.msg, getBotSettings(r.msg.guild)) THEN reply(r, "AdminDenied")
          ELSE IF Len(args(r.msg)) < 1 THEN reply(r, "Usage")
          ELSE IF parseIntIsNaN(arg(r.msg, 1)) \/ parseInt(arg(r.msg, 1)) < 0
            THEN reply(r, "InvalidValue")
          ELSE IF r.msg.guild = NoGuild THEN reply(r, "GuildOnly")
          ELSE [r EXCEPT !.pc = "setcooldown:updateBotSettings"]]
     /\ UNCHANGED <<backend, webVars, now, storeVars>>

\* storage.updateBotSettings(guild.id, { cooldown: minutes * 60 }): undefined
\* without a row. (DatabaseStorage selects, then updates; no operation deletes
\* a settings row, so the two statements are taken as one step.)
setCooldownUpdate(s) ==
  LET r == reqs[s]
      g == r.msg.guild
      cooldownSeconds == parseInt(arg(r.msg, 1)) * 60
  IN /\ r.pc = "setcooldown:updateBotSettings"
     /\ IF g \in DOMAIN botSettings
          THEN /\ botSettings' = [botSettings EXCEPT ![g].cooldown = cooldownSeconds]
               /\ reqs' = [reqs EXCEPT ![s].pc = "setcooldown:createLog"]
          ELSE /\ reqs' = [reqs EXCEPT ![s] = reply(r, "UpdateFailed")]
               /\ UNCHANGED botSettings
     /\ UNCHANGED <<backend, webVars, now, accounts, accountId, categories, categoryId, logs, logId>>

\* createLog COOLDOWN_UPDATED, then the reply.
setCooldownLog(s) ==
  LET r == reqs[s]
  IN /\ r.pc = "setcooldown:createLog"
     /\ logs' = createLogs(<<<<"success", "COOLDOWN_UPDATED">>>>)
     /\ logId' = logId + 1
     /\ reqs' = [reqs EXCEPT ![s] = reply(r, "CooldownUpdated")]
     /\ UNCHANGED <<backend, webVars, now, accounts, accountId, categories, categoryId, botSettings>>

handleSetCooldownCommand(s) ==
  \/ setCooldownPermission(s)
  \/ setCooldownUpdate(s)
  \/ setCooldownLog(s)

\* ----------------------------------------------------- handleBlacklistCommand
blacklistPermission(s) ==
  LET r == reqs[s]
  IN /\ r.pc = "blacklist"
     /\ reqs' = [reqs EXCEPT ![s] =
          IF ~isAdmin(r.msg, getBotSettings(r.msg.guild)) THEN reply(r, "AdminDenied")
          ELSE IF Len(args(r.msg)) < 2 THEN reply(r, "Usage")
          ELSE [r EXCEPT !.pc = "blacklist:createLog"]]
     /\ UNCHANGED <<backend, webVars, now, storeVars>>

\* createLog USER_BLACKLISTED (nothing else is stored), then the reply.
blacklistLog(s) ==
  LET r == reqs[s]
  IN /\ r.pc = "blacklist:createLog"
     /\ logs' = createLogs(<<<<"warning", "USER_BLACKLISTED">>>>)
     /\ logId' = logId + 1
     /\ reqs' = [reqs EXCEPT ![s] = reply(r, "Blacklisted")]
     /\ UNCHANGED <<backend, webVars, now, accounts, accountId, categories, categoryId, botSettings>>

handleBlacklistCommand(s) ==
  \/ blacklistPermission(s)
  \/ blacklistLog(s)

\* ----------------------------------------------------------- handleAddCommand
\* accountDetails.split(':') on the strings the model uses; the handler takes
\* the first two parts as email and password.
split(accountDetails) ==
  CASE accountDetails = "b@x.com:pw2" -> <<"b@x.com", "pw2">>
    [] accountDetails = ":pw2" -> <<"", "pw2">>
    [] accountDetails = "b@x.com:" -> <<"b@x.com", "">>
    [] OTHER -> <<accountDetails>>

\* await isAdmin(message), then the checks of the arguments.
addPermission(s) ==
  LET r == reqs[s]
  IN /\ r.pc = "add"
     /\ reqs' = [reqs EXCEPT ![s] =
          IF ~isAdmin(r.msg, getBotSettings(r.msg.guild)) THEN reply(r, "AdminDenied")
          ELSE IF Len(args(r.msg)) < 2 THEN reply(r, "Usage")
          ELSE IF ~includes(arg(r.msg, 2), ":") THEN reply(r, "InvalidFormat")
          ELSE [r EXCEPT !.pc = "add:getCategoryByName"]]
     /\ UNCHANGED <<backend, webVars, now, storeVars>>

\* Find or create category, first half: storage.getCategoryByName(serviceName).
addGetCategory(s) ==
  LET r == reqs[s]
      category == getCategoryByName(arg(r.msg, 1))
  IN /\ r.pc = "add:getCategoryByName"
     /\ reqs' = [reqs EXCEPT ![s] =
          IF category = 0 THEN [r EXCEPT !.pc = "add:createCategory"]
          ELSE [r EXCEPT !.category = category, !.pc = "add:createAccount"]]
     /\ UNCHANGED <<backend, webVars, now, storeVars>>

\* storage.createCategory({ name: serviceName }). In DatabaseStorage the name
\* is unique: the insert fails when a category of that name exists by now.
addCreateCategory(s) ==
  LET r == reqs[s]
      name == arg(r.msg, 1)
  IN /\ r.pc = "add:createCategory"
     /\ IF backend = "db" /\ \E c \in DOMAIN categories : categories[c].name = name
          THEN /\ reqs' = [reqs EXCEPT ![s].pc = "add:catch"]
               /\ UNCHANGED <<categories, categoryId>>
          ELSE /\ categories' = (categoryId :> [name |-> name]) @@ categories
               /\ categoryId' = categoryId + 1
               /\ reqs' = [reqs EXCEPT ![s] =
                    [r EXCEPT !.category = categoryId, !.pc = "add:createAccount"]]
     /\ UNCHANGED <<backend, webVars, now, accounts, accountId, botSettings, logs, logId>>

\* storage.createAccount(insertAccount): the row gets the next id and the
\* current time, and ACCOUNT_CREATED is logged (both back ends).
createAccount(insertAccount) ==
  /\ accounts' = (accountId :> Account(accountId, insertAccount.email,
                     insertAccount.password, insertAccount.categoryId,
                     insertAccount.status, insertAccount.expiresAt,
                     insertAccount.generatedBy, insertAccount.generatedAt, now))
                 @@ accounts
  /\ accountId' = accountId + 1
  /\ logs' = createLogs(<<<<"info", "ACCOUNT_CREATED">>>>)
  /\ logId' = logId + 1

\* storage.createAccount({ email, password, categoryId: category.id, status:
\* "available", expiresAt: null, generatedBy: null, generatedAt: null }).
addCreateAccount(s) ==
  LET r == reqs[s]
      parts == split(arg(r.msg, 2))
  IN /\ r.pc = "add:createAccount"
     /\ createAccount([email |-> parts[1], password |-> parts[2],
                       categoryId |-> r.category, status |-> "available",
                       expiresAt |-> Null, generatedBy |-> NullStr, generatedAt |-> Null])
     /\ reqs' = [reqs EXCEPT ![s].pc = "add:createLog"]
     /\ UNCHANGED <<backend, webVars, now, categories, categoryId, botSettings>>

\* createLog ACCOUNT_ADDED, then the reply.
addLog(s) ==
  LET r == reqs[s]
  IN /\ r.pc = "add:createLog"
     /\ logs' = createLogs(<<<<"success", "ACCOUNT_ADDED">>>>)
     /\ logId' = logId + 1
     /\ reqs' = [reqs EXCEPT ![s] = reply(r, "AccountAdded")]
     /\ UNCHANGED <<backend, webVars, now, accounts, accountId, categories, categoryId, botSettings>>

\* catch (error): ACCOUNT_ADD_ERROR is logged and the reply sent.
addCatch(s) ==
  LET r == reqs[s]
  IN /\ r.pc = "add:catch"
     /\ logs' = createLogs(<<<<"error", "ACCOUNT_ADD_ERROR">>>>)
     /\ logId' = logId + 1
     /\ reqs' = [reqs EXCEPT ![s] = reply(r, "SystemError")]
     /\ UNCHANGED <<backend, webVars, now, accounts, accountId, categories, categoryId, botSettings>>

handleAddCommand(s) ==
  \/ addPermission(s)
  \/ addGetCategory(s)
  \/ addCreateCategory(s)
  \/ addCreateAccount(s)
  \/ addLog(s)
  \/ addCatch(s)

\* ------------------------------------------------------ storage.deleteAccount
\* MemStorage.deleteAccount(id) in one step: false when the id is not in the
\* map, else the entry is deleted and ACCOUNT_DELETED logged.
MemDeleteAccount(s, id, deleted, missing) ==
  /\ backend = "mem"
  /\ IF id \in DOMAIN accounts
       THEN /\ accounts' = [i \in DOMAIN accounts \ {id} |-> accounts[i]]
            /\ logs' = createLogs(<<<<"info", "ACCOUNT_DELETED">>>>)
            /\ logId' = logId + 1
            /\ reqs' = [reqs EXCEPT ![s] = deleted]
       ELSE /\ reqs' = [reqs EXCEPT ![s] = missing]
            /\ UNCHANGED <<accounts, logs, logId>>
  /\ UNCHANGED <<backend, webVars, now, accountId, categories, categoryId, botSettings>>

\* DatabaseStorage.deleteAccount, second statement and the createLog after it:
\* DELETE ... WHERE id (of no effect when the row is gone by now), then
\* ACCOUNT_DELETED is logged and true returned. The first statement is the
\* select of DbUpdateSelect.
DbDeleteWrite(s, id, deleted) ==
  /\ backend = "db"
  /\ accounts' = [i \in DOMAIN accounts \ {id} |-> accounts[i]]
  /\ logs' = createLogs(<<<<"info", "ACCOUNT_DELETED">>>>)
  /\ logId' = logId + 1
  /\ reqs' = [reqs EXCEPT ![s] = deleted]
  /\ UNCHANGED <<backend, webVars, now, accountId, categories, categoryId, botSettings>>

\* -------------------------------------------------------- handleRemoveCommand
\* await isAdmin(message), then the check of the arguments.
removePermission(s) ==
  LET r == reqs[s]
  IN /\ r.pc = "remove"
     /\ reqs' = [reqs EXCEPT ![s] =
          IF ~isAdmin(r.msg, getBotSettings(r.msg.guild)) THEN reply(r, "AdminDenied")
          ELSE IF Len(args(r.msg)) < 2 THEN reply(r, "Usage")
          ELSE [r EXCEPT !.pc = "remove:getCategoryByName"]]
     /\ UNCHANGED <<backend, webVars, now, storeVars>>

removeGetCategory(s) ==
  LET r == reqs[s]
      category == getCategoryByName(arg(r.msg, 1))
  IN /\ r.pc = "remove:getCategoryByName"
     /\ reqs' = [reqs EXCEPT ![s] =
          IF category = 0 THEN reply(r, "CategoryNotFound")
          ELSE [r EXCEPT !.category = category, !.pc = "remove:getAccounts"]]
     /\ UNCHANGED <<backend, webVars, now, storeVars>>

\* storage.getAccounts({ categoryId, search: email }) and
\* accounts.find(a => a.email === email): the first row with that email.
removeGetAccounts(s) ==
  LET r == reqs[s]
      email == arg(r.msg, 2)
      found == {id \in getAccounts([categoryId |-> r.category, status |-> Undefined,
                                    search |-> email]) : accounts[id].email = email}
  IN /\ r.pc = "remove:getAccounts"
     /\ IF found = {}
          THEN reqs' = [reqs EXCEPT ![s] = reply(r, "AccountNotFound")]
          ELSE \E id \in firstOf(found) :
                 reqs' = [reqs EXCEPT ![s] =
                   [r EXCEPT !.account = accounts[id], !.pc = "remove:deleteAccount"]]
     /\ UNCHANGED <<backend, webVars, now, storeVars>>

\* storage.deleteAccount(account.id)
removeDeleteAccount(s) ==
  LET r == reqs[s]
  IN /\ r.pc = "remove:deleteAccount"
     /\ IF backend = "mem"
          THEN MemDeleteAccount(s, r.account.id, [r EXCEPT !.pc = "remove:createLog"],
                                reply(r, "DeleteFailed"))
          ELSE DbUpdateSelect(s, r.account.id,
                              [r EXCEPT !.pc = "remove:deleteAccount:delete"],
                              reply(r, "DeleteFailed"))

removeDeleteAccountWrite(s) ==
  LET r == reqs[s]
  IN /\ r.pc = "remove:deleteAccount:delete"
     /\ DbDeleteWrite(s, r.account.id, [r EXCEPT !.pc = "remove:createLog"])

\* createLog ACCOUNT_REMOVED, then the reply.
removeLog(s) ==
  LET r == reqs[s]
  IN /\ r.pc = "remove:createLog"
     /\ logs' = createLogs(<<<<"success", "ACCOUNT_REMOVED">>>>)
     /\ logId' = logId + 1
     /\ reqs' = [reqs EXCEPT ![s] = reply(r, "AccountRemoved")]
     /\ UNCHANGED <<backend, webVars, now, accounts, accountId, categories, categoryId, botSettings>>

handleRemoveCommand(s) ==
  \/ removePermission(s)
  \/ removeGetCategory(s)
  \/ removeGetAccounts(s)
  \/ removeDeleteAccount(s)
  \/ removeDeleteAccountWrite(s)
  \/ removeLog(s)

\* ------------------------------------------------------------- HTTP routes
\* requireAuth and requireAdmin, as the status they end the request with
\* ("next" when both call next()).
requireAuth(h) == IF h.session = "none" THEN "401" ELSE "next"

\* A middleware that lets every request through.
requireNothing(h) == "next"

requireAdmin(h) == IF h.session # "admin" THEN "403" ELSE "next"
guard(h) == IF requireAuth(h) # "next" THEN requireAuth(h) ELSE requireAdmin(h)

\* insertAccountSchema: z.date() accepts no ISO string, so a body that holds
\* a date fails; email, password, categoryId and the three nullable fields
\* are required (status has a default).
insertAccountSchema(h) ==
  /\ h.isoDates = {}
  /\ {"email", "password", "categoryId", "expiresAt", "generatedBy", "generatedAt"}
       \subseteq DOMAIN h.body

\* insertAccountSchema.partial(): every field is optional.
insertAccountSchemaPartial(h) == h.isoDates = {}

\* bulkSchema: z.object({ accounts: z.array(insertAccountSchema), categoryId:
\* z.number() }). The strings email and password are z.string(), which
\* accepts the empty string.
bulkSchema(h) ==
  /\ h.isoDates = {}
  /\ {"accounts", "categoryId"} \subseteq DOMAIN h.body
  /\ \A i \in 1..Len(h.body.accounts) :
       {"email", "password", "categoryId", "expiresAt", "generatedBy", "generatedAt"}
         \subseteq DOMAIN h.body.accounts[i]

\* A request arrives at PATCH /api/accounts/:id, POST /api/accounts, POST
\* /api/accounts/bulk or DELETE /api/accounts/:id: the middleware and the
\* validation run, and the handler reaches its storage call.
HttpRequest(s, h) ==
  /\ reqs[s].pc = "idle"
  /\ \A j \in Slots : j < s => reqs[j].pc # "idle"
  /\ LET r == Request("start", NoMessage, h)
     IN reqs' = [reqs EXCEPT ![s] =
          IF guard(h) # "next" THEN reply(r, guard(h))
          ELSE IF h.route = "PATCH"
            THEN IF insertAccountSchemaPartial(h)
                   THEN [r EXCEPT !.pc = "PATCH:updateAccount"] ELSE reply(r, "400")
          ELSE IF h.route = "POST"
            THEN IF insertAccountSchema(h)
                   THEN [r EXCEPT !.pc = "POST:createAccount"] ELSE reply(r, "400")
          ELSE IF h.route = "BULK"
            THEN IF bulkSchema(h)
                   THEN [r EXCEPT !.pc = "BULK:createAccounts"] ELSE reply(r, "400")
          ELSE [r EXCEPT !.pc = "DELETE:deleteAccount"]]
  /\ UNCHANGED <<backend, webVars, now, storeVars>>

\* PATCH /api/accounts/:id: storage.updateAccount(id, accountData); 404 when
\* it returns undefined, 500 when it throws.
patchUpdateAccount(s) ==
  LET r == reqs[s]
  IN /\ r.pc = "PATCH:updateAccount"
     /\ IF backend = "mem"
          THEN MemUpdateAccount(s, r.http.id, r.http.body,
                                IF r.http.id \in DOMAIN accounts
                                  THEN reply(r, "200") ELSE reply(r, "404"))
          ELSE DbUpdateSelect(s, r.http.id,
                              [r EXCEPT !.pc = "PATCH:updateAccount:update"],
                              reply(r, "404"))

patchUpdateAccountWrite(s) ==
  LET r == reqs[s]
  IN /\ r.pc = "PATCH:updateAccount:update"
     /\ DbUpdateWrite(s, r.http.id, r.http.body, reply(r, "200"), reply(r, "500"))

\* POST /api/accounts: storage.createAccount(accountData), 201.
postCreateAccount(s) ==
  LET r == reqs[s]
  IN /\ r.pc = "POST:createAccount"
     /\ createAccount(r.http.body)
     /\ reqs' = [reqs EXCEPT ![s] = reply(r, "201")]
     /\ UNCHANGED <<backend, webVars, now, categories, categoryId, botSettings>>

\* storage.createAccounts(insertAccounts). MemStorage calls createAccount for
\* each draft in turn; every await of that loop is on a promise MemStorage
\* resolves without I/O, so no other handler runs between two inserts, and
\* each insert logs ACCOUNT_CREATED. DatabaseStorage inserts all the rows in
\* one statement and logs ACCOUNTS_BULK_CREATED once.
createAccountsLogs(b, n) ==
  IF b = "mem" THEN [i \in 1..n |-> <<"info", "ACCOUNT_CREATED">>]
  ELSE <<<<"info", "ACCOUNTS_BULK_CREATED">>>>

createAccounts(insertAccounts) ==
  LET n == Len(insertAccounts)
      entries == createAccountsLogs(backend, n)
  IN /\ accounts' =
          [id \in accountId..(accountId + n - 1) |->
             LET insertAccount == insertAccounts[id - accountId + 1]
             IN Account(id, insertAccount.email, insertAccount.password,
                        insertAccount.categoryId, insertAccount.status,
                        insertAccount.expiresAt, insertAccount.generatedBy,
                        insertAccount.generatedAt, now)]
          @@ accounts
     /\ accountId' = accountId + n
     /\ logs' = createLogs(entries)
     /\ logId' = logId + Len(entries)

\* POST /api/accounts/bulk: storage.createAccounts(accountsData), 201.
postCreateAccounts(s) ==
  LET r == reqs[s]
      n == Len(r.http.body.accounts)
  IN /\ r.pc = "BULK:createAccounts"
     /\ createAccounts(r.http.body.accounts)
     /\ reqs' = [reqs EXCEPT ![s] =
          reply([r EXCEPT !.createdAccounts = [i \in 1..n |-> accountId + i - 1]], "201")]
     /\ UNCHANGED <<backend, webVars, now, categories, categoryId, botSettings>>

\* DELETE /api/accounts/:id: storage.deleteAccount(id); 404 when false.
deleteDeleteAccount(s) ==
  LET r == reqs[s]
  IN /\ r.pc = "DELETE:deleteAccount"
     /\ IF backend = "mem"
          THEN MemDeleteAccount(s, r.http.id, reply(r, "204"), reply(r, "404"))
          ELSE DbUpdateSelect(s, r.http.id,
                              [r EXCEPT !.pc = "DELETE:deleteAccount:delete"],
                              reply(r, "404"))

deleteDeleteAccountWrite(s) ==
  LET r == reqs[s]
  IN /\ r.pc = "DELETE:deleteAccount:delete"
     /\ DbDeleteWrite(s, r.http.id, reply(r, "204"))

accountRoutes(s) ==
  \/ patchUpdateAccount(s)
  \/ patchUpdateAccountWrite(s)
  \/ postCreateAccount(s)
  \/ postCreateAccounts(s)
  \/ deleteDeleteAccount(s)
  \/ deleteDeleteAccountWrite(s)

\* ------------------------------------------------------------------ inputs
Guild(author, roles, administrator, words) ==
  Message(author, FALSE, "G1", roles, administrator, "!", words)

\* The chat messages of a run.
Messages ==
  { Guild("U1", {}, FALSE, <<"generate", "streaming">>),
    Guild("U2", {"R1"}, FALSE, <<"generate", "streaming">>),
    Guild("U1", {}, FALSE, <<"generate">>),
    Guild("U1", {}, FALSE, <<"generate", "nosuch">>),
    Guild("U1", {}, FALSE, <<"cooldown">>),
    Guild("Adm", {}, TRUE, <<"setcooldown", "121">>),
    Guild("Mod", {"R2"}, FALSE, <<"setcooldown", "-5">>),
    Guild("U1", {}, FALSE, <<"setcooldown", "0">>),
    Guild("Adm", {}, TRUE, <<"add", "streaming", "b@x.com:pw2">>),
    Guild("Adm", {}, TRUE, <<"add", "music", "b@x.com:pw2">>),
    Guild("Adm", {}, TRUE, <<"add", "music", "b@x.com">>),
    Guild("Adm", {}, TRUE, <<"remove", "streaming", "a@x.com">>),
    Guild("Mod", {"R2"}, FALSE, <<"blacklist", "U1", "spam">>),
    Guild("U1", {}, FALSE, <<"foo">>),
    Message("U1", FALSE, "G1", {}, FALSE, "?", <<"generate", "streaming">>),
    Message("Bot", TRUE, "G1", {}, FALSE, "!", <<"generate", "streaming">>),
    Message("Owner", FALSE, NoGuild, {}, FALSE, "!", <<"setcooldown", "60">>) }

\* A body that only sets the status, as the release after a failed DM does.
StatusOnly == [status |-> "available"]

\* The body of the admin page's restock request.
Restock == [status |-> "available", generatedAt |-> Null, generatedBy |-> NullStr]

\* addAccountsMutation of the admin page: each line of the textarea is split
\* at ':', a line without a first or a second part throws before anything is
\* sent, and otherwise one POST /api/accounts/bulk carries a draft per line
\* (expiresAt is undefined when the form has no date, and JSON drops it). The
\* lines the model uses hold no white space, so trim() leaves them as they are.
addAccountsMutation(lines, category) ==
  IF \E i \in 1..Len(lines) :
       \/ Len(split(lines[i])) < 2
       \/ split(lines[i])[1] = ""
       \/ split(lines[i])[2] = ""
    THEN {}
    ELSE {Http("BULK", "admin", 0,
               [accounts |-> [i \in 1..Len(lines) |->
                                [email |-> split(lines[i])[1],
                                 password |-> split(lines[i])[2],
                                 categoryId |-> category, status |-> "available"]],
                categoryId |-> category], {})}

\* A draft as insertAccountSchema wants it, with every nullable field null.
Draft(email, password, category) ==
  [email |-> email, password |-> password, categoryId |-> category,
   status |-> "available", expiresAt |-> Null, generatedBy |-> NullStr,
   generatedAt |-> Null]

\* The HTTP requests of a run.
HttpRequests ==
  addAccountsMutation(<<"b@x.com:pw2">>, 1)
  \cup addAccountsMutation(<<"b@x.com:pw2", "b@x.com">>, 1)
  \cup
  { Http("BULK", "admin", 0,
         [accounts |-> <<Draft("d@x.com", "pw4", 1), Draft("", "pw5", 1)>>,
          categoryId |-> 1], {}),
    Http("PATCH", "admin", 1, Restock, {}),
    Http("PATCH", "admin", 1, [status |-> "generated", generatedBy |-> "web-admin"],
         {"generatedAt"}),
    Http("PATCH", "admin", 1, [status |-> "generated", generatedBy |-> "web-admin"], {}),
    Http("PATCH", "admin", 1, [categoryId |-> 1], {}),
    Http("PATCH", "admin", 9, Restock, {}),
    Http("PATCH", "none", 1, Restock, {}),
    Http("PATCH", "user", 1, Restock, {}),
    Http("POST", "admin", 0,
         [email |-> "c@x.com", password |-> "pw3", categoryId |-> 1,
          status |-> "available", expiresAt |-> Null, generatedBy |-> NullStr,
          generatedAt |-> Null], {}),
    Http("POST", "admin", 0, [email |-> "c@x.com", password |-> "pw3", categoryId |-> 1], {}),
    Http("DELETE", "admin", 1, <<>>, {}) }

\* -------------------------------------------------------------------- Next
Next ==
  \/ Tick
  \/ \E s \in Slots : \E m \in Messages : MessageCreate(s, m)
  \/ \E s \in Slots : \E h \in HttpRequests : HttpRequest(s, h)
  \/ \E s \in Slots : createBotSettings(s)
  \/ \E s \in Slots : handleGenerateCommand(s)
  \/ \E s \in Slots : handleCooldownCommand(s)
  \/ \E s \in Slots : handleSetCooldownCommand(s)
  \/ \E s \in Slots : handleBlacklistCommand(s)
  \/ \E s \in Slots : handleAddCommand(s)
  \/ \E s \in Slots : handleRemoveCommand(s)
  \/ \E s \in Slots : accountRoutes(s)

Spec == Init /\ [][Next]_vars

\* ------------------------------------------------- permission checks alone
\* The permission functions on every combination of configured role lists,
\* requester roles, Administrator permission, guild or DM, and command: one
\* message is received and its handler runs up to the permission check.
Roles == {"R1", "R2"}
RoleLists == {<<>>, <<"R1">>, <<"R2">>, <<"R1", "R2">>}

PermSettings ==
  {<<>>} \cup {"G1" :> BotSettings("G1", "!", allowed, admin, DefaultCooldown) :
                 allowed \in RoleLists, admin \in RoleLists}

PermWords ==
  { <<"generate", "streaming">>, <<"cooldown">>, <<"add", "streaming", "b@x.com:pw2">>,
    <<"remove", "streaming", "a@x.com">>, <<"blacklist", "U1", "spam">>,
    <<"setcooldown", "60">> }

\* In a DM there is no member: no roles and no Administrator permission.
PermMessages ==
  {Guild(u, roles, administrator, w) :
     u \in {"U1"}, roles \in SUBSET Roles, administrator \in BOOLEAN, w \in PermWords}
  \cup {Message(u, FALSE, NoGuild, {}, FALSE, "!", w) :
          u \in {"U1", DISCORD_OWNER_ID}, w \in PermWords}

PermInit ==
  /\ backend = "db"
  /\ now = 0
  /\ UsersInit
  /\ categories = (1 :> [name |-> "streaming"])
  /\ categoryId = 2
  /\ accounts = (1 :> Account(1, "a@x.com", "pw1", 1, "available", Null, NullStr, Null, 0))
  /\ accountId = 2
  /\ botSettings \in PermSettings
  /\ logs = <<Log(1, "info", "ACCOUNT_CREATED", 0), Log(2, "success", "ACCOUNT_ADDED", 0)>>
  /\ logId = 3
  /\ reqs = [s \in Slots |-> Idle]

PermNext ==
  \/ \E m \in PermMessages : MessageCreate(1, m)
  \/ createBotSettings(1)
  \/ generatePermission(1)
  \/ handleCooldownCommand(1)
  \/ addPermission(1)
  \/ removePermission(1)
  \/ blacklistPermission(1)
  \/ setCooldownPermission(1)

SpecPerm == PermInit /\ [][PermNext]_vars

\* ------------------------------------------------------ the command router
\* Every command of the switch, sent by every kind of requester under every
\* configuration of the role lists: the message is dispatched and its handler
\* runs up to its permission check.
RouterWords ==
  PermWords \cup { <<"help">>, <<"stock">>, <<"stock", "streaming">>, <<"status">>,
                   <<"profile">>, <<"info">>, <<"info", "streaming">>, <<"foo">> }

RouterMessages ==
  {Guild(u, roles, administrator, w) :
     u \in {"U1"}, roles \in SUBSET Roles, administrator \in BOOLEAN, w \in RouterWords}
  \cup {Message(u, FALSE, NoGuild, {}, FALSE, "!", w) :
          u \in {"U1", DISCORD_OWNER_ID}, w \in RouterWords}

RouterNext ==
  \/ \E m \in RouterMessages : MessageCreate(1, m)
  \/ createBotSettings(1)
  \/ generatePermission(1)
  \/ handleStockCommand(1)
  \/ addPermission(1)
  \/ handleStatusCommand(1)
  \/ handleHelpCommand(1)
  \/ handleCooldownCommand(1)
  \/ handleInfoCommand(1)
  \/ removePermission(1)
  \/ blacklistPermission(1)
  \/ setCooldownPermission(1)

SpecRouter == PermInit /\ [][RouterNext]_vars

\* ------------------------------------------------- one request at a time
\* The calls of an operator who waits for each answer before the next call,
\* against a storage that does not fail: a Claim by U1 or U2, an Add, a
\* Remove (of an account that exists, of one that does not, in a category
\* that does not exist), a Restock of an account that exists or not, and the
\* two administrative updates that move an account into a category or mark
\* it generated.
SeqMessages ==
  { Guild("U1", {}, FALSE, <<"generate", "streaming">>),
    Guild("U2", {"R1"}, FALSE, <<"generate", "streaming">>),
    Guild("Adm", {}, TRUE, <<"add", "streaming", "b@x.com:pw2">>),
    Guild("Adm", {}, TRUE, <<"remove", "streaming", "a@x.com">>),
    Guild("Adm", {}, TRUE, <<"remove", "streaming", "netflix@example.com">>),
    Guild("Adm", {}, TRUE, <<"remove", "streaming", "zz@x.com">>),
    Guild("Adm", {}, TRUE, <<"remove", "nosuch", "a@x.com">>) }

SeqHttpRequests ==
  { Http("PATCH", "admin", 1, Restock, {}),
    Http("PATCH", "admin", 9, Restock, {}),
    Http("PATCH", "admin", 1, [status |-> "generated", generatedBy |-> "web-admin"], {}),
    Http("PATCH", "admin", 1, [categoryId |-> 1], {}) }

\* No handler is running.
quiet == \A s \in Slots : reqs[s].pc \in {"idle", "done"}

SeqNext ==
  \/ Tick
  \/ \E s \in Slots : \E m \in SeqMessages : quiet /\ MessageCreate(s, m)
  \/ \E s \in Slots : \E h \in SeqHttpRequests : quiet /\ HttpRequest(s, h)
  \/ \E s \in Slots : createBotSettings(s)
  \/ \E s \in Slots : generatePermission(s)
  \/ \E s \in Slots : generateGetCategory(s)
  \/ \E s \in Slots : generateGetAccounts(s)
  \/ \E s \in Slots : generateNoStock(s)
  \/ \E s \in Slots : generateUpdateAccount(s)
  \/ \E s \in Slots : generateUpdateAccountWrite(s)
  \/ \E s \in Slots : generateLogSuccess(s)
  \/ \E s \in Slots : generateSend(s)
  \/ \E s \in Slots : generateRelease(s)
  \/ \E s \in Slots : generateReleaseWrite(s)
  \/ \E s \in Slots : addPermission(s)
  \/ \E s \in Slots : addGetCategory(s)
  \/ \E s \in Slots : addCreateAccount(s)
  \/ \E s \in Slots : addLog(s)
  \/ \E s \in Slots : handleRemoveCommand(s)
  \/ \E s \in Slots : patchUpdateAccount(s)
  \/ \E s \in Slots : patchUpdateAccountWrite(s)

SpecSeq == Init /\ [][SeqNext]_vars

\* ------------------------------------------------- malformed arguments
\* The commands of an admin whose arguments are incomplete or ill-formed,
\* next to a well-formed add, one at a time against a storage that does not
\* fail.
ArgsWords ==
  { <<"generate">>, <<"add">>, <<"add", "streaming">>, <<"add", "streaming", "b@x.com">>,
    <<"add", "streaming", ":pw2">>, <<"add", "streaming", "b@x.com:">>,
    <<"add", "streaming", "b@x.com:pw2">>, <<"remove">>, <<"remove", "streaming">>,
    <<"setcooldown">>, <<"setcooldown", "abc">>, <<"setcooldown", "-5">> }

ArgsMessages == {Guild("Adm", {}, TRUE, w) : w \in ArgsWords}

ArgsNext ==
  \/ \E s \in Slots : \E m \in ArgsMessages : quiet /\ MessageCreate(s, m)
  \/ \E s \in Slots : createBotSettings(s)
  \/ \E s \in Slots : generatePermission(s)
  \/ \E s \in Slots : addPermission(s)
  \/ \E s \in Slots : addGetCategory(s)
  \/ \E s \in Slots : addCreateAccount(s)
  \/ \E s \in Slots : addLog(s)
  \/ \E s \in Slots : removePermission(s)
  \/ \E s \in Slots : setCooldownPermission(s)

SpecArgs == Init /\ [][ArgsNext]_vars

\* ------------------------------------------------------- guild settings
\* The messages that meet the settings of guild G1: a user command, two
\* changes of the cooldown by an admin, an unknown command and a message
\* without the prefix; one at a time (SpecSettingsSeq) or overlapping
\* (SpecSettings).
SettingsMessages ==
  { Guild("U1", {}, FALSE, <<"cooldown">>),
    Guild("Adm", {}, TRUE, <<"setcooldown", "121">>),
    Guild("Adm", {}, TRUE, <<"setcooldown", "60">>),
    Guild("U1", {}, FALSE, <<"foo">>),
    Message("U1", FALSE, "G1", {}, FALSE, "?", <<"cooldown">>) }

SettingsSteps ==
  \/ Tick
  \/ \E s \in Slots : createBotSettings(s)
  \/ \E s \in Slots : handleCooldownCommand(s)
  \/ \E s \in Slots : setCooldownPermission(s)
  \/ \E s \in Slots : setCooldownUpdate(s)
  \/ \E s \in Slots : setCooldownLog(s)

SettingsNext ==
  \/ \E s \in Slots : \E m \in SettingsMessages : MessageCreate(s, m)
  \/ SettingsSteps

SpecSettings == Init /\ [][SettingsNext]_vars

SettingsSeqNext ==
  \/ \E s \in Slots : \E m \in SettingsMessages : quiet /\ MessageCreate(s, m)
  \/ SettingsSteps

SpecSettingsSeq == Init /\ [][SettingsSeqNext]_vars

\* ---------------------------------------------------- category references
\* The paths that store an account's categoryId, one request at a time: the
\* chat command add for a category that exists and for a new one, and the
\* admin routes with the id of a category that exists (1) or does not (9).
CategoryMessages ==
  { Guild("Adm", {}, TRUE, <<"add", "streaming", "b@x.com:pw2">>),
    Guild("Adm", {}, TRUE, <<"add", "music", "b@x.com:pw2">>) }

CategoryHttpRequests ==
  { Http("POST", "admin", 0, Draft("c@x.com", "pw3", 1), {}),
    Http("POST", "admin", 0, Draft("c@x.com", "pw3", 9), {}),
    Http("BULK", "admin", 0, [accounts |-> <<Draft("d@x.com", "pw4", 9)>>, categoryId |-> 9], {}),
    Http("PATCH", "admin", 1, [categoryId |-> 1], {}),
    Http("PATCH", "admin", 1, [categoryId |-> 9], {}) }

CategoryNext ==
  \/ Tick
  \/ \E s \in Slots : \E m \in CategoryMessages : quiet /\ MessageCreate(s, m)
  \/ \E s \in Slots : \E h \in CategoryHttpRequests : quiet /\ HttpRequest(s, h)
  \/ \E s \in Slots : createBotSettings(s)
  \/ \E s \in Slots : addPermission(s)
  \/ \E s \in Slots : addGetCategory(s)
  \/ \E s \in Slots : addCreateCategory(s)
  \/ \E s \in Slots : addCreateAccount(s)
  \/ \E s \in Slots : addLog(s)
  \/ \E s \in Slots : patchUpdateAccount(s)
  \/ \E s \in Slots : patchUpdateAccountWrite(s)
  \/ \E s \in Slots : postCreateAccount(s)
  \/ \E s \in Slots : postCreateAccounts(s)

SpecCategory == Init /\ [][CategoryNext]_vars

\* ------------------------------------------------------------ web sessions
\* The length of the strings the schemas measure.
length(str) ==
  CASE str = "" -> 0
    [] str = "al" -> 2
    [] str = "bob" -> 3
    [] str = "admin" -> 5
    [] str = "wrong1" -> 6
    [] str = "secret1" -> 7
    [] str = "admin123" -> 8

\* hashPassword: the salted scrypt hash of the password.
hashPassword(password) == [salted |-> TRUE, text |-> password]

\* comparePasswords(supplied, stored): direct comparison with a legacy row;
\* else the scrypt hash of the supplied password under the stored salt is
\* compared with the stored hash.
comparePasswords(supplied, stored) ==
  IF ~stored.salted THEN supplied = stored.text
  ELSE hashPassword(supplied) = stored

\* loginSchema and registerSchema.
loginSchema(body) == length(body.username) >= 1 /\ length(body.password) >= 1
registerSchema(body) == length(body.username) >= 3 /\ length(body.password) >= 6

\* storage.getUserByUsername: the first row with the username, NoUser when
\* there is none.
getUserByUsername(username) ==
  LET hit == {id \in DOMAIN users : users[id].username = username}
  IN IF hit = {} THEN NoUser ELSE users[CHOOSE id \in hit : \A j \in hit : id <= j]

\* storage.createUser. DatabaseStorage's insert throws when the username is
\* stored already (users.username is unique); MemStorage sets the next id.
createUserThrows(insertUser) ==
  backend = "db" /\ getUserByUsername(insertUser.username) # NoUser

createUser(insertUser) ==
  /\ users' = (userId :> User(userId, insertUser.username, insertUser.password,
                              insertUser.isAdmin)) @@ users
  /\ userId' = userId + 1

\* req.session.user = { id, username, isAdmin }.
SessionUser(user) == [id |-> user.id, username |-> user.username, isAdmin |-> user.isAdmin]

\* What the session middleware finds for the cookie sid when a request
\* arrives: no user, a user, or an admin.
sessionOf(sid) ==
  IF sessions[sid] = NoUser THEN "none"
  ELSE IF sessions[sid].isAdmin THEN "admin" ELSE "user"

\* The request h sent with the cookie sid.
Web(sid, h) == [sid |-> sid] @@ [h EXCEPT !.session = sessionOf(sid)]

\* POST /api/register: registerSchema.parse, then the lookup of the username.
register(s, sid, body) ==
  /\ reqs[s].pc = "idle"
  /\ \A j \in Slots : j < s => reqs[j].pc # "idle"
  /\ LET r == Request("start", NoMessage, Web(sid, Http("REGISTER", "", 0, body, {})))
     IN reqs' = [reqs EXCEPT ![s] =
          IF ~registerSchema(body) THEN reply(r, "400")
          ELSE IF getUserByUsername(body.username) # NoUser THEN reply(r, "UsernameTaken")
          ELSE [r EXCEPT !.pc = "register:hashPassword"]]
  /\ UNCHANGED <<backend, webVars, now, storeVars>>

\* await hashPassword(userData.password): scrypt runs in the thread pool.
registerHashPassword(s) ==
  /\ reqs[s].pc = "register:hashPassword"
  /\ reqs' = [reqs EXCEPT ![s].pc = "register:createUser"]
  /\ UNCHANGED <<backend, webVars, now, storeVars>>

\* storage.createUser({ username, password: hashedPassword, isAdmin: false });
\* a throw is answered with 500.
registerCreateUser(s) ==
  LET r == reqs[s]
      insertUser == [username |-> r.http.body.username,
                     password |-> hashPassword(r.http.body.password), isAdmin |-> FALSE]
  IN /\ r.pc = "register:createUser"
     /\ IF createUserThrows(insertUser)
          THEN /\ reqs' = [reqs EXCEPT ![s] = reply(r, "500")]
               /\ UNCHANGED <<users, userId>>
          ELSE /\ createUser(insertUser)
               /\ reqs' = [reqs EXCEPT ![s] =
                    [r EXCEPT !.pc = "register:createLog",
                              !.user = SessionUser(users'[userId])]]
     /\ UNCHANGED <<backend, sessions, now, storeVars>>

\* req.session.user = newUser, createLog USER_REGISTERED, 201; the session is
\* stored when the response ends.
registerCreateLog(s) ==
  LET r == reqs[s]
  IN /\ r.pc = "register:createLog"
     /\ sessions' = [sessions EXCEPT ![r.http.sid] = r.user]
     /\ logs' = createLogs(<<<<"success", "USER_REGISTERED">>>>)
     /\ logId' = logId + 1
     /\ reqs' = [reqs EXCEPT ![s] = reply(r, "201")]
     /\ UNCHANGED <<backend, users, userId, now, accounts, accountId, categories,
                    categoryId, botSettings>>

\* POST /api/login: loginSchema.parse, then the lookup of the user.
login(s, sid, body) ==
  /\ reqs[s].pc = "idle"
  /\ \A j \in Slots : j < s => reqs[j].pc # "idle"
  /\ LET r == Request("start", NoMessage, Web(sid, Http("LOGIN", "", 0, body, {})))
         user == getUserByUsername(body.username)
     IN reqs' = [reqs EXCEPT ![s] =
          IF ~loginSchema(body) THEN reply(r, "400")
          ELSE IF user = NoUser THEN reply(r, "401")
          ELSE [r EXCEPT !.pc = "login:comparePasswords", !.user = user]]
  /\ UNCHANGED <<backend, webVars, now, storeVars>>

\* await comparePasswords(password, user.password).
loginComparePasswords(s) ==
  LET r == reqs[s]
  IN /\ r.pc = "login:comparePasswords"
     /\ reqs' = [reqs EXCEPT ![s] =
          IF comparePasswords(r.http.body.password, r.user.password)
            THEN [r EXCEPT !.pc = "login:createLog"] ELSE reply(r, "401")]
     /\ UNCHANGED <<backend, webVars, now, storeVars>>

\* req.session.user = user, createLog USER_LOGIN, 200.
loginCreateLog(s) ==
  LET r == reqs[s]
  IN /\ r.pc = "login:createLog"
     /\ sessions' = [sessions EXCEPT ![r.http.sid] = SessionUser(r.user)]
     /\ logs' = createLogs(<<<<"success", "USER_LOGIN">>>>)
     /\ logId' = logId + 1
     /\ reqs' = [reqs EXCEPT ![s] = reply(r, "200")]
     /\ UNCHANGED <<backend, users, userId, now, accounts, accountId, categories,
                    categoryId, botSettings>>

\* POST /api/logout: without a user in the session, "No active session".
logout(s, sid) ==
  /\ reqs[s].pc = "idle"
  /\ \A j \in Slots : j < s => reqs[j].pc # "idle"
  /\ LET r == Request("start", NoMessage, Web(sid, Http("LOGOUT", "", 0, <<>>, {})))
     IN reqs' = [reqs EXCEPT ![s] =
          IF sessions[sid] = NoUser THEN reply(r, "NoActiveSession")
          ELSE [r EXCEPT !.pc = "logout:destroy"]]
  /\ UNCHANGED <<backend, webVars, now, storeVars>>

\* The callback of req.session.destroy: the session is gone from the store,
\* createLog USER_LOGOUT, 200.
logoutDestroy(s) ==
  LET r == reqs[s]
  IN /\ r.pc = "logout:destroy"
     /\ sessions' = [sessions EXCEPT ![r.http.sid] = NoUser]
     /\ logs' = createLogs(<<<<"info", "USER_LOGOUT">>>>)
     /\ logId' = logId + 1
     /\ reqs' = [reqs EXCEPT ![s] = reply(r, "LoggedOut")]
     /\ UNCHANGED <<backend, users, userId, now, accounts, accountId, categories,
                    categoryId, botSettings>>

\* POST /api/users: requireAuth, requireAdmin, insertUserSchema.parse.
postUsers(s, sid, body) ==
  /\ reqs[s].pc = "idle"
  /\ \A j \in Slots : j < s => reqs[j].pc # "idle"
  /\ LET r == Request("start", NoMessage, Web(sid, Http("USERS", "", 0, body, {})))
     IN reqs' = [reqs EXCEPT ![s] =
          IF guard(r.http) # "next" THEN reply(r, guard(r.http))
          ELSE [r EXCEPT !.pc = "USERS:createUser"]]
  /\ UNCHANGED <<backend, webVars, now, storeVars>>

\* storage.createUser(userData), 201; 500 when it throws.
postUsersCreateUser(s) ==
  LET r == reqs[s]
  IN /\ r.pc = "USERS:createUser"
     /\ IF createUserThrows(r.http.body)
          THEN /\ reqs' = [reqs EXCEPT ![s] = reply(r, "500")]
               /\ UNCHANGED <<users, userId>>
          ELSE /\ createUser(r.http.body)
               /\ reqs' = [reqs EXCEPT ![s] = reply(r, "201")]
     /\ UNCHANGED <<backend, sessions, now, storeVars>>

\* The bodies of the register, login and user-creating requests, and the
\* account requests of the admin pages.
RegisterBodies ==
  { [username |-> "bob", password |-> "secret1"],
    [username |-> "al", password |-> "secret1"] }

LoginBodies ==
  { [username |-> "admin", password |-> "admin123"],
    [username |-> "admin", password |-> "wrong1"],
    [username |-> "bob", password |-> "secret1"],
    [username |-> "bob", password |-> ""] }

UserBodies ==
  { [username |-> "bob", password |-> [salted |-> FALSE, text |-> "secret1"],
     isAdmin |-> TRUE] }

WebHttpRequests ==
  { Http("PATCH", "", 1, Restock, {}),
    Http("POST", "", 0, Draft("c@x.com", "pw3", 1), {}),
    Http("BULK", "", 0, [accounts |-> <<Draft("d@x.com", "pw4", 1)>>, categoryId |-> 1], {}),
    Http("DELETE", "", 1, <<>>, {}) }

\* The stores a run of the web server starts from: the default admin, with
\* or without a registered user bob, each logged in on their browser or not.
Bob == User(2, "bob", hashPassword("secret1"), FALSE)

WebInit ==
  /\ backend \in {"mem", "db"}
  /\ now = 0
  /\ IF backend = "mem" THEN MemInit ELSE DbInit
  /\ reqs = [s \in Slots |-> Idle]
  /\ \E registered \in BOOLEAN :
       /\ users = IF registered
                    THEN (2 :> Bob) @@ (1 :> User(1, "admin", [salted |-> FALSE, text |-> "admin123"], TRUE))
                    ELSE (1 :> User(1, "admin", [salted |-> FALSE, text |-> "admin123"], TRUE))
       /\ userId = IF registered THEN 3 ELSE 2
       /\ sessions \in {f \in [SessionIds -> {NoUser, SessionUser(users[1]), SessionUser(Bob)}] :
                          /\ f["c1"] \in {NoUser, SessionUser(users[1])}
                          /\ f["c2"] \in {NoUser} \cup (IF registered THEN {SessionUser(Bob)} ELSE {})}

WebSteps ==
  \/ \E s \in Slots : registerHashPassword(s)
  \/ \E s \in Slots : registerCreateUser(s)
  \/ \E s \in Slots : registerCreateLog(s)
  \/ \E s \in Slots : loginComparePasswords(s)
  \/ \E s \in Slots : loginCreateLog(s)
  \/ \E s \in Slots : logoutDestroy(s)
  \/ \E s \in Slots : postUsersCreateUser(s)
  \/ \E s \in Slots : accountRoutes(s)

\* One request at a time.
WebSeqNext ==
  \/ \E s \in Slots : \E sid \in SessionIds : \E body \in RegisterBodies :
       quiet /\ register(s, sid, body)
  \/ \E s \in Slots : \E sid \in SessionIds : \E body \in LoginBodies :
       quiet /\ login(s, sid, body)
  \/ \E s \in Slots : \E sid \in SessionIds : quiet /\ logout(s, sid)
  \/ \E s \in Slots : \E sid \in SessionIds : \E body \in UserBodies :
       quiet /\ postUsers(s, sid, body)
  \/ \E s \in Slots : \E sid \in SessionIds : \E h \in WebHttpRequests :
       quiet /\ HttpRequest(s, Web(sid, h))
  \/ WebSteps

SpecWebSeq == WebInit /\ [][WebSeqNext]_vars

\* Register requests alone, overlapping.
RegisterNext ==
  \/ \E s \in Slots : \E sid \in SessionIds : \E body \in RegisterBodies : register(s, sid, body)
  \/ \E s \in Slots : registerHashPassword(s)
  \/ \E s \in Slots : registerCreateUser(s)
  \/ \E s \in Slots : registerCreateLog(s)

SpecRegister == WebInit /\ [][RegisterNext]_vars

\* ------------------------------------------------------------ failed claims
\* The generate calls that fail, next to one that can succeed: without a
\* service, for a service that does not exist, by a member without an allowed
\* role, with the DM refused, and with no account left; one at a time.
ClaimMessages ==
  { Guild("U1", {}, FALSE, <<"generate", "streaming">>),
    Guild("U2", {"R1"}, FALSE, <<"generate", "streaming">>),
    Guild("U1", {}, FALSE, <<"generate">>),
    Guild("U2", {"R1"}, FALSE, <<"generate", "nosuch">>) }

ClaimNext ==
  \/ Tick
  \/ \E s \in Slots : \E m \in ClaimMessages : quiet /\ MessageCreate(s, m)
  \/ \E s \in Slots : createBotSettings(s)
  \/ \E s \in Slots : generatePermission(s)
  \/ \E s \in Slots : generateGetCategory(s)
  \/ \E s \in Slots : generateGetAccounts(s)
  \/ \E s \in Slots : generateNoStock(s)
  \/ \E s \in Slots : generateUpdateAccount(s)
  \/ \E s \in Slots : generateUpdateAccountWrite(s)
  \/ \E s \in Slots : generateLogSuccess(s)
  \/ \E s \in Slots : generateSend(s)
  \/ \E s \in Slots : generateRelease(s)
  \/ \E s \in Slots : generateReleaseWrite(s)

SpecClaim == Init /\ [][ClaimNext]_vars

\* ------------------------------------------------------------------ claims
\* What the slots tell about the calls of a run.
Range(seq) == {seq[i] : i \in 1..Len(seq)}

\* Slot s holds a `generate <category>` call sent in guild g.
isGenerate(s, g, category) ==
  /\ reqs[s].msg.guild = g
  /\ command(reqs[s].msg) = "generate"
  /\ arg(reqs[s].msg, 1) # Undefined
  /\ toLowerCase(arg(reqs[s].msg, 1)) = category

\* The call of slot s has ended with exactly this reply.
ended(s, kind) == reqs[s].pc = "done" /\ reqs[s].replies = <<kind>>

\* The calls of two slots come from the same requester for the same key.
sameClaimKey(s1, s2) ==
  /\ reqs[s1].msg.author = reqs[s2].msg.author
  /\ reqs[s1].msg.guild = reqs[s2].msg.guild
  /\ arg(reqs[s1].msg, 1) = arg(reqs[s2].msg, 1)

\* C1: Atomic claim. When a category holds N >= 1 available accounts and
\* M > N generate calls from distinct requesters are all that runs, exactly N
\* calls succeed, each with a distinct account, and exactly M - N observe
\* StockExhausted; no account is handed to two different callers. (Stated on
\* the database back end, whose category "streaming" starts with every
\* account available: N is the number of accounts of the category.)
AtomicClaim ==
  LET N == Cardinality({id \in DOMAIN accounts : accounts[id].categoryId = 1})
      M == Cardinality(Slots)
      won == {s \in Slots : ended(s, "Success")}
      lost == {s \in Slots : ended(s, "StockExhausted")}
  IN (/\ backend = "db"
      /\ \A s \in Slots : isGenerate(s, "G1", "streaming") /\ s \in won \cup lost
      /\ \A s1, s2 \in Slots : s1 # s2 => reqs[s1].msg.author # reqs[s2].msg.author
      /\ N >= 1 /\ M > N)
     => /\ Cardinality(won) = N
        /\ Cardinality(lost) = M - N
        /\ \A s1, s2 \in won : s1 # s2 => reqs[s1].dm.id # reqs[s2].dm.id

\* C2: Status/field consistency. In every reachable state every account has
\* status = generated iff generatedBy and generatedAt are both non-null, and
\* status = available iff generatedBy and generatedAt are both null.
StatusFieldConsistency ==
  \A id \in DOMAIN accounts :
    LET a == accounts[id]
    IN /\ a.status = "generated" <=> (a.generatedBy # NullStr /\ a.generatedAt # Null)
       /\ a.status = "available" <=> (a.generatedBy = NullStr /\ a.generatedAt = Null)

\* C3: Claim/Release round trip. When a generate call has claimed an
\* available account and, the DM having failed, released it, and nothing
\* else has run, the account is available with generatedBy and generatedAt
\* null: equal to its state before the claim except for updatedAt.
ClaimReleaseRoundTrip ==
  \A s \in Slots :
    LET r == reqs[s]
        id == r.account.id
    IN (/\ ended(s, "DMError")
        /\ \A j \in Slots \ {s} : reqs[j].pc = "idle"
        /\ id \in DOMAIN accounts)
       => /\ accounts[id].status = "available"
          /\ accounts[id].generatedBy = NullStr
          /\ accounts[id].generatedAt = Null
          /\ \A f \in DOMAIN r.account \ {"updatedAt"} : accounts[id][f] = r.account[f]

\* The step in which the generate call of slot s writes its release
\* (updateAccount with status "available") to an account that is in the
\* store and already available.
ReleaseOfAvailable(s) ==
  /\ reqs[s].pc = (IF backend = "mem" THEN "generate:release" ELSE "generate:release:update")
  /\ reqs'[s].pc # reqs[s].pc
  /\ reqs[s].account.id \in DOMAIN accounts
  /\ accounts[reqs[s].account.id].status = "available"

\* C4, as stated: releasing an account that is already available is a no-op
\* (the account record and the rest of the store are unchanged) and is not
\* reported as an error.
ReleaseIsNoOp ==
  [][\A s \in Slots :
       ReleaseOfAvailable(s) =>
         /\ UNCHANGED storeVars
         /\ reqs'[s].pc = "done" /\ reqs'[s].replies = <<"DMError">>]_vars

\* C4, amended: releasing an account that is already available changes no
\* field of that account except updatedAt, changes no other account and no
\* category or settings row, appends exactly one ACCOUNT_UPDATED log entry,
\* and is not reported as an error (the call ends with the DM-failure reply).
\* Releasing twice thus leaves the account as releasing once does, up to
\* updatedAt.
ReleaseKeepsAccount ==
  [][\A s \in Slots :
       ReleaseOfAvailable(s) =>
         /\ accounts' = [accounts EXCEPT ![reqs[s].account.id].updatedAt = now]
         /\ logs' = Append(logs, Log(logId, "info", "ACCOUNT_UPDATED", now))
         /\ logId' = logId + 1
         /\ UNCHANGED <<accountId, categories, categoryId, botSettings>>
         /\ reqs'[s].pc = "done" /\ reqs'[s].replies = <<"DMError">>]_vars

\* Two generate calls have both released the same account after a failed DM:
\* the later release found it available.
ReleasedTwice ==
  \E s1, s2 \in Slots :
    /\ s1 # s2
    /\ ended(s1, "DMError") /\ ended(s2, "DMError")
    /\ reqs[s1].account.id = reqs[s2].account.id
    /\ reqs[s1].at # Null /\ reqs[s2].at # Null
    /\ reqs[s1].account.id \in DOMAIN accounts
    /\ accounts[reqs[s1].account.id].status = "available"

\* C5: Cooldown enforcement. Once a requester has successfully claimed an
\* account of a category in a guild at time T, no further claim by the same
\* requester for the same category and guild allocates an account before
\* T + cooldown, also when the two calls run concurrently: no two calls of
\* one requester for one category and guild both succeed less than the
\* guild's cooldown apart.
CooldownEnforced ==
  \A s1, s2 \in Slots :
    (/\ s1 # s2
     /\ reqs[s1].msg.guild \in Guilds
     /\ command(reqs[s1].msg) = "generate" /\ command(reqs[s2].msg) = "generate"
     /\ sameClaimKey(s1, s2)
     /\ ended(s1, "Success") /\ ended(s2, "Success")
     /\ reqs[s1].at <= reqs[s2].at)
    => reqs[s2].at >= reqs[s1].at + getBotSettings(reqs[s1].msg.guild).cooldown

\* The requester of slot s may have claimed an account: a generate call of
\* theirs has run, or an account carries their name.
hasClaimed(s) ==
  \/ \E j \in Slots : /\ command(reqs[j].msg) = "generate"
                      /\ reqs[j].msg.author = reqs[s].msg.author
  \/ \E id \in DOMAIN accounts : accounts[id].generatedBy = reqs[s].msg.author

\* C6: A requester with no prior successful claim has remaining cooldown 0,
\* whatever the guild's cooldown is: the cooldown command answers that the
\* requester may generate now.
NoClaimNoCooldown ==
  \A s \in Slots :
    (/\ command(reqs[s].msg) = "cooldown"
     /\ reqs[s].pc = "done"
     /\ reqs[s].remaining # Null
     /\ ~hasClaimed(s))
    => reqs[s].remaining = 0 /\ reqs[s].replies = <<"CooldownOver">>

\* The times of the successful claims of the requester of slot s in the guild
\* of slot s that lie before the time t.
claimTimes(s, t) ==
  {reqs[j].at : j \in {k \in Slots : /\ command(reqs[k].msg) = "generate"
                                     /\ reqs[k].msg.author = reqs[s].msg.author
                                     /\ reqs[k].msg.guild = reqs[s].msg.guild
                                     /\ ended(k, "Success")
                                     /\ reqs[k].at < t}}

\* C7: The remaining cooldown the cooldown command reports equals
\* max(0, cooldown - (now - lastClaim)), lastClaim being the time of the
\* requester's last successful claim: so it is > 0 at T + C - 1 and 0 from
\* T + C on.
RemainingCooldownFormula ==
  \A s \in Slots :
    LET r == reqs[s]
        T == claimTimes(s, r.at)
        last == CHOOSE t \in T : \A u \in T : u <= t
    IN (/\ command(r.msg) = "cooldown"
        /\ r.msg.guild \in Guilds
        /\ r.pc = "done"
        /\ r.remaining # Null
        /\ T # {})
       => r.remaining = Max(0, getBotSettings(r.msg.guild).cooldown - (r.at - last))

\* The requester of message m is an admin of the guild whose settings are
\* `settings`: holds one of the admin roles or the Administrator permission.
holdsAdmin(m, settings) ==
  m.roles \cap Range(settings.adminRoles) # {} \/ m.administrator

\* The handler of slot s has run its permission check.
checked(s) ==
  reqs[s].pc \notin {"idle", "start", "createBotSettings", command(reqs[s].msg)}

\* C8: User-level permission. A user-level command (generate, cooldown) is
\* refused with PermissionDenied exactly when the guild's allowedRoles is
\* non-empty, the requester holds none of those roles and is not an admin;
\* with an empty list, or in a DM, every requester is allowed.
UserPermission ==
  \A s \in Slots :
    LET m == reqs[s].msg
        settings == getBotSettings(m.guild)
    IN (command(m) \in {"generate", "cooldown"} /\ checked(s))
       => (reqs[s].replies = <<"PermissionDenied">>
           <=> /\ m.guild # NoGuild
               /\ Len(settings.allowedRoles) > 0
               /\ m.roles \cap Range(settings.allowedRoles) = {}
               /\ ~holdsAdmin(m, settings))

\* A requester who holds none of the non-empty allowedRoles and is no admin
\* has been refused.
UserRefused ==
  /\ command(reqs[1].msg) = "generate"
  /\ reqs[1].replies = <<"PermissionDenied">>
  /\ Len(getBotSettings("G1").allowedRoles) > 0
  /\ Len(getBotSettings("G1").adminRoles) > 0

\* C9: Admin-level permission. An admin command (add, remove, blacklist,
\* setcooldown) passes its permission check only if the requester holds a
\* role of adminRoles or the Administrator permission or, in a DM, is the
\* configured owner; with empty adminRoles only a requester with the
\* Administrator permission passes.
AdminPermission ==
  \A s \in Slots :
    LET m == reqs[s].msg
        settings == getBotSettings(m.guild)
    IN (/\ command(m) \in {"add", "remove", "blacklist", "setcooldown"}
        /\ checked(s)
        /\ reqs[s].replies # <<"AdminDenied">>)
       => /\ IF m.guild = NoGuild THEN m.author = DISCORD_OWNER_ID
                                  ELSE holdsAdmin(m, settings)
          /\ (m.guild # NoGuild /\ Len(settings.adminRoles) = 0) => m.administrator

\* A requester without the Administrator permission has passed the check of
\* `add` by an admin role.
AdminByRole ==
  /\ reqs[1].pc = "add:getCategoryByName"
  /\ ~reqs[1].msg.administrator
  /\ reqs[1].msg.roles \cap Range(getBotSettings("G1").adminRoles) # {}

\* C10: Expired exclusion. A generate call never takes an account whose
\* expiresAt is in the past: the account it has read as available is not
\* expired at the time of the read.
ExpiredExcluded ==
  \A s \in Slots :
    reqs[s].selectedAt # Null
      => \/ reqs[s].account.expiresAt = Null
         \/ reqs[s].account.expiresAt >= reqs[s].selectedAt

\* The available accounts of a category that have not expired.
candidates(category) ==
  {id \in DOMAIN accounts :
     /\ accounts[id].categoryId = category
     /\ accounts[id].status = "available"
     /\ accounts[id].expiresAt = Null \/ accounts[id].expiresAt >= now}

\* The account of ids with the oldest createdAt, the lowest id among equals.
oldest(ids) ==
  CHOOSE id \in ids :
    \A j \in ids : \/ accounts[id].createdAt < accounts[j].createdAt
                   \/ accounts[id].createdAt = accounts[j].createdAt /\ id <= j

\* C11: FIFO selection. Whenever a generate call selects an account while the
\* category holds available, non-expired accounts, the account selected is
\* the one of them with the oldest createdAt (lowest id among equals), in
\* both back ends.
FifoSelection ==
  [][\A s \in Slots :
       (/\ reqs[s].pc = "generate:getAccounts"
        /\ reqs'[s].pc = "generate:updateAccount"
        /\ candidates(reqs[s].category) # {})
       => reqs'[s].account.id = oldest(candidates(reqs[s].category))]_vars

\* A draft of a batch is malformed: its identifier or its secret is empty.
malformed(draft) == draft.email = "" \/ draft.password = ""

\* C12: Bulk add atomicity. A bulk add whose batch holds a malformed draft
\* (empty identifier or empty secret) fails as a whole: it never answers 201
\* and none of its drafts is persisted; and a bulk add persists either none
\* or all of its drafts.
BulkAddAtomic ==
  \A s \in Slots :
    reqs[s].http.route = "BULK" =>
      /\ Len(reqs[s].createdAccounts) \in {0, Len(reqs[s].http.body.accounts)}
      /\ (\E i \in 1..Len(reqs[s].http.body.accounts) :
            malformed(reqs[s].http.body.accounts[i]))
         => /\ reqs[s].createdAccounts = <<>>
            /\ ~ended(s, "201")

\* The log entries the store holds when the program starts: MemStorage's
\* constructor logs its three sample accounts and SYSTEM_START, the database
\* holds the two entries of the earlier add.
logsAtStart == IF backend = "mem" THEN 4 ELSE 2

\* Slot s holds a Claim, Add or Remove command or a Restock request.
isLoggedCall(s) ==
  \/ command(reqs[s].msg) \in {"generate", "add", "remove"}
  \/ reqs[s].http.route = "PATCH" /\ reqs[s].http.body = Restock

\* The replies that stand for a success or a named error of those calls.
NamedOutcomes ==
  {"Success", "PermissionDenied", "AdminDenied", "CategoryNotFound", "StockExhausted",
   "DMError", "InvalidFormat", "AccountAdded", "AccountRemoved", "AccountNotFound",
   "200", "404"}

\* C13: Logging completeness. A Claim, Restock, Add or Remove call that was
\* the only call of the run and has ended in success or in a named error has
\* appended exactly one log entry.
LoggingComplete ==
  \A s \in Slots :
    (/\ isLoggedCall(s)
     /\ reqs[s].pc = "done"
     /\ Len(reqs[s].replies) = 1
     /\ reqs[s].replies[1] \in NamedOutcomes
     /\ \A j \in Slots \ {s} : reqs[j].pc = "idle")
    => Len(logs) = logsAtStart + 1

\* Slot s holds a generate message that has reached the switch of the
\* MessageCreate handler.
dispatchedGenerate(s) ==
  /\ command(reqs[s].msg) = "generate"
  /\ reqs[s].settings # NoSettings
  /\ reqs[s].msg.prefix = reqs[s].settings.prefix

\* C14: Exactly one reply per claim attempt. A generate message that has
\* reached the dispatcher never has more than one reply, and once its handler
\* has ended it has exactly one.
OneReplyPerGenerate ==
  \A s \in Slots :
    dispatchedGenerate(s) =>
      /\ Len(reqs[s].replies) <= 1
      /\ reqs[s].pc = "done" => Len(reqs[s].replies) = 1

writes(s, pc, id) ==
  /\ reqs[s].pc \in {pc, pc \o ":update"}
  /\ reqs'[s].pc # reqs[s].pc
  /\ id = IF reqs[s].http = NoHttp THEN reqs[s].account.id ELSE reqs[s].http.id

\* C16: Account lifecycle. Every account is created available; a step turns
\* an account's status into generated only as the claim of a generate call,
\* and turns it from generated back to available only as the release of a
\* generate call whose DM failed or as a Restock request.
AccountLifecycle ==
  [][\A id \in DOMAIN accounts' :
       IF id \notin DOMAIN accounts THEN accounts'[id].status = "available"
       ELSE /\ (accounts[id].status # "generated" /\ accounts'[id].status = "generated")
               => \E s \in Slots : writes(s, "generate:updateAccount", id)
            /\ (accounts[id].status = "generated" /\ accounts'[id].status = "available")
               => \E s \in Slots :
                    \/ writes(s, "generate:release", id)
                    \/ writes(s, "PATCH:updateAccount", id) /\ reqs[s].http.body = Restock]_vars

\* The message of slot s is one the MessageCreate handler has nothing to do
\* for: sent by a bot, without the prefix of its guild's settings (the
\* default prefix where there are none), or naming no command of the switch.
ignorable(s) ==
  LET m == reqs[s].msg
      settings == IF m.guild = NoGuild \/ getBotSettings(m.guild) = NoSettings
                    THEN DefaultSettings(m.guild) ELSE getBotSettings(m.guild)
  IN /\ m # NoMessage
     /\ \/ m.bot
        \/ m.prefix # settings.prefix
        \/ command(m) \notin {"generate", "stock", "add", "status", "help", "profile",
                              "cooldown", "info", "remove", "blacklist", "setcooldown"}

\* C17: Unknown commands are silently ignored. Every step taken for a message
\* that is sent by a bot, lacks the prefix or names an unknown command leaves
\* the log, the accounts and the categories unchanged and sends no reply.
SilentlyIgnored ==
  [][\A s \in Slots :
       (reqs'[s] # reqs[s] /\ ignorable(s)')
       => /\ logs' = logs
          /\ accounts' = accounts
          /\ categories' = categories
          /\ reqs'[s].replies = <<>>]_vars

\* C18: End-to-end scenario, as far as two calls reach. With one available
\* account in category streaming and cooldown 3600, after U1's successful
\* claim of that account (status generated) an immediate second claim by U1
\* is answered CooldownActive, and a claim by U2 is answered StockExhausted.
EndToEndScenario ==
  \A s1, s2 \in Slots :
    (/\ s2 = s1 + 1
     /\ \A j \in Slots : j < s1 => reqs[j].pc = "idle"
     /\ isGenerate(s1, "G1", "streaming")
     /\ reqs[s1].msg.author = "U1"
     /\ ended(s1, "Success")
     /\ isGenerate(s2, "G1", "streaming")
     /\ reqs[s2].pc = "done")
    => /\ reqs[s1].dm.id \in DOMAIN accounts
       /\ accounts[reqs[s1].dm.id].status = "generated"
       /\ (reqs[s2].msg.author = "U1" /\ now = reqs[s1].at)
          => reqs[s2].replies = <<"CooldownActive">>
       /\ reqs[s2].msg.author = "U2" => reqs[s2].replies = <<"StockExhausted">>

\* Slot s holds a Restock request: the PATCH of the admin page's restock.
isRestock(s) == reqs[s].http.route = "PATCH" /\ reqs[s].http.body = Restock

\* C19: Restock(accountId). The step that ends a Restock request on an
\* existing account, whatever its status, answers 200, sets status to
\* available, clears generatedBy and generatedAt, leaves email, password,
\* categoryId and expiresAt and every other account unchanged, and appends
\* one info log entry; on a missing id it answers 404 (NotFound) and changes
\* no account.
RestockContract ==
  [][\A s \in Slots :
       (/\ isRestock(s)
        /\ reqs[s].pc \in {"PATCH:updateAccount", "PATCH:updateAccount:update"}
        /\ reqs'[s].pc = "done")
       => LET id == reqs[s].http.id
          IN IF id \in DOMAIN accounts
               THEN /\ reqs'[s].replies = <<"200">>
                    /\ DOMAIN accounts' = DOMAIN accounts
                    /\ accounts'[id].status = "available"
                    /\ accounts'[id].generatedBy = NullStr
                    /\ accounts'[id].generatedAt = Null
                    /\ \A f \in {"id", "email", "password", "categoryId", "expiresAt"} :
                         accounts'[id][f] = accounts[id][f]
                    /\ \A j \in DOMAIN accounts \ {id} : accounts'[j] = accounts[j]
                    /\ Len(logs') = Len(logs) + 1
                    /\ logs'[Len(logs')].type = "info"
               ELSE /\ reqs'[s].replies = <<"404">>
                    /\ accounts' = accounts
                    /\ logs' = logs]_vars

\* An account that a claim had marked generated has been restocked.
RestockedAfterClaim ==
  \E s1, s2 \in Slots :
    /\ s2 = s1 + 1
    /\ command(reqs[s1].msg) = "generate"
    /\ ended(s1, "Success")
    /\ isRestock(s2)
    /\ ended(s2, "200")
    /\ reqs[s1].dm.id = reqs[s2].http.id
    /\ accounts[reqs[s2].http.id].status = "available"
    /\ accounts[reqs[s2].http.id].generatedBy = NullStr

\* The accounts a `remove <category> <email>` call of slot s is about: those
\* of the named category that carry exactly that email.
removable(s) ==
  {id \in DOMAIN accounts :
     /\ getCategoryByName(arg(reqs[s].msg, 1)) # 0
     /\ accounts[id].categoryId = getCategoryByName(arg(reqs[s].msg, 1))
     /\ accounts[id].email = arg(reqs[s].msg, 2)}

endsInFailure(s) ==
  /\ reqs[s].msg # NoMessage
  /\ reqs[s].pc \notin {"idle", "done"}
  /\ reqs'[s].pc = "done"
  /\ \/ reqs'[s].replies = <<"SystemError">>
     \/ reqs'[s].replies = <<>> /\ ~ignorable(s)

\* C21: Storage failure handling. Whenever a command ends because a storage
\* call failed, an error-typed log entry has been appended by then and the
\* requester gets the 'try again later' reply: the ending step appends the
\* error entry and sends that reply.
StorageFailureHandled ==
  [][\A s \in Slots :
       endsInFailure(s)
       => /\ Len(logs') = Len(logs) + 1
          /\ logs'[Len(logs')].type = "error"
          /\ reqs'[s].replies = <<"SystemError">>]_vars

\* The permission level the command table gives each command.
userCommands == {"help", "generate", "stock", "status", "profile", "cooldown", "info"}
adminCommands == {"add", "remove", "blacklist", "setcooldown"}

\* The requester of slot s fails the check the table asks for its command.
failsCheck(s) ==
  LET m == reqs[s].msg
  IN \/ command(m) \in userCommands /\ ~hasPermission(m, getBotSettings(m.guild))
     \/ command(m) \in adminCommands /\ ~isAdmin(m, getBotSettings(m.guild))

\* C22: Command Router gating. A known command is dispatched to the handler
\* of its name, and the first step of that handler checks the permission
\* level of the command table: a requester who fails the check is refused
\* (PermissionDenied for a user-level command, AdminDenied for an admin-level
\* one) and nothing in the store changes.
RouterGating ==
  [][\A s \in Slots :
       (/\ reqs[s].pc \in userCommands \cup adminCommands
        /\ reqs[s].pc = command(reqs[s].msg)
        /\ reqs'[s] # reqs[s]
        /\ failsCheck(s))
       => /\ reqs'[s].pc = "done"
          /\ reqs'[s].replies =
               IF reqs[s].pc \in userCommands THEN <<"PermissionDenied">>
                                              ELSE <<"AdminDenied">>
          /\ UNCHANGED storeVars]_vars

\* The arguments of the command of message m are malformed.
malformedArgs(m) ==
  \/ command(m) = "generate" /\ arg(m, 1) = Undefined
  \/ command(m) \in {"add", "remove"} /\ Len(args(m)) < 2
  \/ /\ command(m) = "add"
     /\ Len(args(m)) >= 2
     /\ \/ ~includes(arg(m, 2), ":")
        \/ Len(split(arg(m, 2))) < 2
        \/ split(arg(m, 2))[1] = ""
        \/ split(arg(m, 2))[2] = ""
  \/ /\ command(m) = "setcooldown"
     /\ \/ arg(m, 1) = Undefined
        \/ parseIntIsNaN(arg(m, 1))
        \/ parseInt(arg(m, 1)) < 0

\* C23: Malformed arguments yield a usage error. The handler of generate,
\* add, remove or setcooldown, entered by a permitted requester with
\* malformed arguments, ends in its first step with one usage or format
\* reply and leaves accounts, categories and settings unchanged.
MalformedArguments ==
  [][\A s \in Slots :
       (/\ reqs[s].pc \in {"generate", "add", "remove", "setcooldown"}
        /\ reqs[s].pc = command(reqs[s].msg)
        /\ reqs'[s] # reqs[s]
        /\ ~failsCheck(s)
        /\ malformedArgs(reqs[s].msg))
       => /\ reqs'[s].pc = "done"
          /\ reqs'[s].replies \in {<<"Usage">>, <<"InvalidFormat">>, <<"InvalidValue">>}
          /\ accounts' = accounts
          /\ categories' = categories
          /\ botSettings' = botSettings]_vars

\* Slot s holds a message of a guild, not sent by a bot, whose handler has
\* passed the reading (and creation) of the settings.
pastSettings(s) ==
  /\ reqs[s].msg # NoMessage
  /\ ~reqs[s].msg.bot
  /\ reqs[s].msg.guild # NoGuild
  /\ reqs[s].pc \notin {"idle", "start", "createBotSettings"}

SettingsUnique ==
  [][/\ \A g \in DOMAIN botSettings' : botSettings'[g].guildId = g
     /\ \A g \in DOMAIN botSettings : g \in DOMAIN botSettings'
     /\ \A s \in Slots :
          LET g == reqs[s].msg.guild
          IN (reqs[s].pc = "createBotSettings" /\ reqs'[s].pc # "createBotSettings")
             => /\ g \in DOMAIN botSettings => botSettings'[g] = botSettings[g]
                /\ reqs'[s] = dispatch(reqs[s], botSettings'[g])]_vars

\* Every account of the store refers to a category of the store.
referencesHold(accts, cats) ==
  \A id \in DOMAIN accts : accts[id].categoryId \in DOMAIN cats

\* C26: Category reference invariant. In every reachable state each
\* account's categoryId is the id of a category, and no step of add, POST
\* /api/accounts, POST /api/accounts/bulk or PATCH /api/accounts/:id stores
\* an account, new or changed, whose categoryId has no category.
CategoryReference ==
  /\ [] referencesHold(accounts, categories)
  /\ [][\A id \in DOMAIN accounts' :
          (id \notin DOMAIN accounts \/ accounts'[id] # accounts[id])
          => accounts'[id].categoryId \in DOMAIN categories']_vars

\* The filters of a getAccounts call: with or without a category, a status
\* (a stored one or 'all') and a search text.
FilterVectors ==
  [categoryId : {Null, 1}, status : {Undefined, "available", "all"},
   search : {Undefined, "x.com"}]

\* C27: Storage back ends are interchangeable. On the accounts of any
\* reachable store, getAccounts returns the same rows from MemStorage and
\* from DatabaseStorage for every filter, status 'all' included; and a
\* createAccounts call leaves the log entries that either back end writes
\* (same count, types and actions).
BackendsInterchangeable ==
  /\ [] \A filters \in FilterVectors :
          {id \in DOMAIN accounts : matchesOf("mem", accounts[id], filters)}
            = {id \in DOMAIN accounts : matchesOf("db", accounts[id], filters)}
  /\ [][\A s \in Slots :
          (reqs[s].pc = "BULK:createAccounts" /\ reqs'[s].pc = "done")
          => LET n == Len(reqs[s].http.body.accounts)
             IN /\ logs' = createLogs(createAccountsLogs("mem", n))
                /\ logs' = createLogs(createAccountsLogs("db", n))]_vars

\* C28: Username uniqueness under concurrent registration. In every
\* interleaving of register requests no two users share a username; a
\* register request that reaches createUser when the username is taken
\* gets the 'username taken' answer, creates no user and gets no session;
\* and a user created by register has isAdmin = false.
UsernameUnique ==
  /\ [] \A i, j \in DOMAIN users : users[i].username = users[j].username => i = j
  /\ [][\A s \in Slots :
          (reqs[s].pc = "register:createUser" /\ reqs'[s].pc # reqs[s].pc)
          => IF getUserByUsername(reqs[s].http.body.username) # NoUser
               THEN /\ reqs'[s].replies = <<"UsernameTaken">>
                    /\ reqs'[s].pc = "done"
                    /\ users' = users
               ELSE /\ DOMAIN users' = DOMAIN users \cup {userId}
                    /\ ~users'[userId].isAdmin]_vars

\* The available accounts of a category in a table of accounts.
availableIn(accts, cat) ==
  {id \in DOMAIN accts : accts[id].categoryId = cat /\ accts[id].status = "available"}

FailedOutcomes ==
  {<<"PermissionDenied">>, <<"Usage">>, <<"CategoryNotFound">>, <<"StockExhausted">>}

\* C29: A failed claim has no effect on inventory. No step of a generate call
\* up to its PermissionDenied, usage, CategoryNotFound or StockExhausted
\* reply changes an account, a category or a settings record; and around a
\* delivery failure the claim takes exactly the chosen account out of the
\* category's available accounts, nothing changes them until the release, and
\* the release puts exactly that account back, so the set is the one before
\* the claim.
FailedClaimFrame ==
  [][\A s \in Slots :
       LET r == reqs[s]
           id == r.account.id
       IN (command(r.msg) = "generate" /\ reqs'[s] # r)
          => /\ r.pc \in {"generate", "generate:getCategoryByName", "generate:getAccounts",
                          "generate:noStock", "generate:logSuccess", "generate:send"}
                => /\ accounts' = accounts
                   /\ categories' = categories
                   /\ botSettings' = botSettings
             /\ (reqs'[s].pc = "done" /\ reqs'[s].replies \in FailedOutcomes)
                => r.pc \in {"generate", "generate:getCategoryByName", "generate:noStock"}
             /\ reqs'[s].pc = "generate:logSuccess"
                => /\ id \in availableIn(accounts, r.category)
                   /\ availableIn(accounts', r.category)
                        = availableIn(accounts, r.category) \ {id}
             /\ (reqs'[s].pc = "done" /\ reqs'[s].replies = <<"DMError">>)
                => /\ id \notin availableIn(accounts, r.category)
                   /\ availableIn(accounts', r.category)
                        = availableIn(accounts, r.category) \cup {id}
                   /\ categories' = categories
                   /\ botSettings' = botSettings]_vars

\* A claim whose DM was refused has ended, the account is available again,
\* and a second generate call has ended in one of the four failures.
FailedClaims ==
  \E s1, s2 \in Slots :
    /\ reqs[s1].replies = <<"DMError">>
    /\ reqs[s1].account.id \in availableIn(accounts, reqs[s1].category)
    /\ reqs[s2].pc = "done"
    /\ command(reqs[s2].msg) = "generate"
    /\ reqs[s2].replies \in FailedOutcomes

\* The routes behind requireAuth and requireAdmin.
GuardedRoutes == {"PATCH", "POST", "BULK", "DELETE", "USERS"}

\* C30: Web access control. A request to a route behind requireAuth and
\* requireAdmin is answered 401 when the session of its cookie holds no
\* user and 403 when it holds a user who is no admin, and passes the guard
\* when it holds an admin; no step of a request that did not arrive with an
\* admin's session changes the storage or the users; and a successful
\* logout empties the session, so that the next guarded request with the
\* cookie is answered 401.
WebAccessControl ==
  [][/\ \A s \in Slots :
          LET h == reqs'[s].http
          IN (reqs'[s] # reqs[s] /\ h.route \in GuardedRoutes)
             => /\ reqs[s].pc = "idle"
                   => LET user == sessions[h.sid]
                      IN /\ user = NoUser
                            => reqs'[s].pc = "done" /\ reqs'[s].replies = <<"401">>
                         /\ (user # NoUser /\ ~user.isAdmin)
                            => reqs'[s].pc = "done" /\ reqs'[s].replies = <<"403">>
                         /\ (user # NoUser /\ user.isAdmin)
                            => /\ h.session = "admin"
                               /\ reqs'[s].replies \notin {<<"401">>, <<"403">>}
                         /\ h.session = "admin" => (user # NoUser /\ user.isAdmin)
                /\ h.session # "admin" => UNCHANGED <<storeVars, webVars>>
     /\ \A t \in Slots :
          (reqs[t].pc = "logout:destroy" /\ reqs'[t] # reqs[t])
          => /\ reqs'[t].replies = <<"LoggedOut">>
             /\ sessions'[reqs[t].http.sid] = NoUser]_vars

\* An admin has logged out, and the next request of the same cookie to a
\* guarded route has been answered 401.
RefusedAfterLogout ==
  \E s1, s2 \in Slots :
    /\ s2 = s1 + 1
    /\ reqs[s1].http.route = "LOGOUT"
    /\ reqs[s1].http.session = "admin"
    /\ reqs[s1].replies = <<"LoggedOut">>
    /\ reqs[s2].http.route \in GuardedRoutes
    /\ reqs[s2].http.sid = reqs[s1].http.sid
    /\ reqs[s2].replies = <<"401">>

====
